---- MODULE Spec2Model ----
(***************************************************************************)
(* A model of the nasc dependency-injection container: the singleton       *)
(* cache, the panicking resolver (Make), the cycle-detecting resolver      *)
(* (MakeSafe) and the scope hierarchy with its disposal.                   *)
(*                                                                         *)
(* Goroutines are the processes of Procs.  Each has a call stack of        *)
(* frames, one per function of the source that is in progress; a frame's   *)
(* phase is the position inside that function.  Sections that the source   *)
(* runs under a lock it takes and releases without calling out are one     *)
(* step; a lock that is held across calls (Scope.mu in Scope.Make and      *)
(* Scope.Dispose, the sync.Once of a singleton) is state.                  *)
(***************************************************************************)
EXTENDS Integers, Sequences, FiniteSets, TLC

\* ------------------------------------------------------------------ bounds

\* Number of goroutines.
NumProcs == 2

\* Number of scopes ever created (CreateScope and CreateChildScope).
MaxScopes == 3

\* Number of top-level resolution and disposal calls in one behaviour.
MaxCalls == 3

Procs == 1..NumProcs

\* ------------------------------------------------------------ the bindings

\* Abstract types that are requested.  "U" has no binding at first.
Types == {"A", "B", "C", "D", "F", "G", "K", "M", "N", "P", "S", "T", "U", "X", "Y"}

\* The types that are not interfaces: D is a concrete struct pointer type.
ConcreteParamTypes == {"D"}

\* paramType.Kind() == reflect.Interface
IsInterface(t) == t \notin ConcreteParamTypes

\* A nil abstractType argument.
NilType == "nil"

LifetimeTransient == "transient"
LifetimeSingleton == "singleton"
LifetimeScoped == "scoped"
LifetimeFactory == "factory"

\* registry.Binding, with what the model needs of the concrete type: whether
\* it implements Disposable and Initializable and whether those hooks, the
\* constructor or the factory report an error.
Binding(lifetime, hasCtor, params, ctorFails, disposable, disposeFails, initializable, initFails) ==
  [Lifetime |-> lifetime, Constructor |-> hasCtor, paramTypes |-> params,
   ctorFails |-> ctorFails, disposable |-> disposable, disposeFails |-> disposeFails,
   initializable |-> initializable, initFails |-> initFails]

\* No binding registered for the type (Registry.Get returns BindingNotFoundError).
NoBinding == Binding("none", FALSE, <<>>, FALSE, FALSE, FALSE, FALSE, FALSE)

Plain(lifetime) == Binding(lifetime, FALSE, <<>>, FALSE, FALSE, FALSE, FALSE, FALSE)

Ctor(lifetime, params) == Binding(lifetime, TRUE, params, FALSE, FALSE, FALSE, FALSE, FALSE)

\* The binding BindAutoWire builds: transient, without constructor, with
\* AutoWireEnabled set (the other registration functions leave it unset).
AutoWireBinding ==
  [Lifetime |-> LifetimeTransient, Constructor |-> FALSE, paramTypes |-> <<>>,
   ctorFails |-> FALSE, disposable |-> FALSE, disposeFails |-> FALSE,
   initializable |-> FALSE, initFails |-> FALSE, AutoWireEnabled |-> TRUE]

AutoWireEnabled(b) == "AutoWireEnabled" \in DOMAIN b

\* The type of the one field tagged `inject` in the struct bound with
\* BindAutoWire.
InjectedField == "T"

\* The names and the concrete types of the named bindings.
Names == {"n1", "n2"}

ConcreteTypes == {"c1", "c2"}

\* Concrete arguments the registration functions refuse: nil, and a value that
\* is not a pointer to a struct.
InvalidConcretes == {"nil", "int"}

\* The tags of BindWithTags, and the name it builds for the binding from the
\* first tag and the address of the concrete value.
Tags == {"g1"}

TaggedName(tags, c) == "_tag_" \o tags[1] \o "_" \o c

\* Every name a named binding is stored under.
AllNames == Names \cup {TaggedName(<<g>>, c) : g \in Tags, c \in ConcreteTypes}

\* The binding BindNamed builds: always transient, with no constructor.
NamedBinding(name, concrete) ==
  [Name |-> name, ConcreteType |-> concrete, Lifetime |-> LifetimeTransient]

\* A named binding with the singleton lifetime: Registry.RegisterNamed stores
\* it as it stores any other, though no registration function of Nasc builds it.
NamedSingleton(name, concrete) ==
  [Name |-> name, ConcreteType |-> concrete, Lifetime |-> LifetimeSingleton]

\* The singleton-cache key of a named binding: reflect.TypeOf of an anonymous
\* struct value, which is the same struct type for every abstract type and name.
NamedKey == "struct { t reflect.Type; n string }"

\* No binding registered under the name (GetNamed returns BindingNotFoundError).
NoNamedBinding == [Name |-> "", ConcreteType |-> "none", Lifetime |-> "none"]

\* Registry.namedBindings of a new registry.
NoNamed == [t \in Types |-> [n \in AllNames |-> NoNamedBinding]]

\* Validate outside its loop: no type left to attempt, no error collected.
NoValidation == [todo |-> {}, errors |-> {}]

\* ----------------------------------------------------------------- results

NoErr == [kind |-> "none", path |-> <<>>]

Err(kind) == [kind |-> kind, path |-> <<>>]

\* What a function returns: an instance, or a failure (an error value on the
\* safe path, a panic on the panicking path).
Ok(inst) == [ok |-> TRUE, val |-> inst, err |-> NoErr]

Fail(err) == [ok |-> FALSE, val |-> 0, err |-> err]

\* No call has returned into the frame.
NoRet == [ok |-> FALSE, val |-> -1, err |-> NoErr]

\* A frame of a goroutine's call stack.
Frame(kind, type, scope, phase) ==
  [kind |-> kind, type |-> type, scope |-> scope, phase |-> phase,
   i |-> 1, inst |-> 0, errs |-> 0, after |-> FALSE, ret |-> NoRet]

\* ------------------------------------------------------------------- state

VARIABLES
  registry,        \* Registry.bindings: abstract type -> Binding
  named,           \* Registry.namedBindings: abstract type -> name -> Binding
  validation,      \* per goroutine: the progress of a Validate call (the types
                   \* attempted so far and the errors collected)
  singletons,      \* singletonCache.instances: type -> singletonInstance
  scopes,          \* the Scope objects, in order of creation
  created,         \* history: every construction executed so far; an instance is the
                   \* index of the construction that built it
  stack,           \* per goroutine: the frames of the calls in progress
  ctx,             \* per goroutine: the resolutionContext of its MakeSafe call
  call,            \* per goroutine: the top-level call in progress
  ncalls,          \* number of top-level calls started
  returned,        \* history: the top-level calls that have ended, with their results
  parentScope,     \* history: for each scope, the scope it was created from (0: the container)
  cleanupLog,      \* history: the instances whose Dispose hook ran, in order
  initLog,         \* history: the instances whose Initialize hook ran, in order
  disposeReturned, \* history: the scopes on which a Dispose call has returned
  providers,       \* Nasc.providers: the providerEntry records, in registration order
  bootLog          \* history: the entries whose Boot returned nil, in order

vars == <<registry, named, validation, singletons, scopes, created, stack, ctx, call, ncalls,
          returned, parentScope, cleanupLog, initLog, disposeReturned, providers, bootLog>>

\* singletonInstance: once is "new" (Do not yet entered), "running" (the factory
\* is executing inside Do) or "done".
NoCell == [present |-> FALSE, once |-> "new", value |-> 0, err |-> NoErr]

NewCell == [present |-> TRUE, once |-> "new", value |-> 0, err |-> NoErr]

\* newScope
NewScope == [instances |-> [t \in Types |-> 0], creationOrder |-> <<>>,
             children |-> <<>>, disposed |-> FALSE, mu |-> 0]

NoCall == [op |-> "none", scope |-> 0, type |-> "-", after |-> FALSE]

\* newResolutionContext
NewContext == [stack |-> <<>>, seen |-> {}]

Idle(p) == stack[p] = <<>>

Top(p) == stack[p][Len(stack[p])]

ScopeIds == 1..Len(scopes)

\* The stack of p with its top frame replaced by f.
SetTop(p, f) == [stack EXCEPT ![p] = [@ EXCEPT ![Len(@)] = f]]

\* The top frame of p becomes f and calls g.
PushFrame(p, f, g) == [stack EXCEPT ![p] = Append([@ EXCEPT ![Len(@)] = f], g)]

\* The record of a call that ended with result r.
Returned(c, r) ==
  [op |-> c.op, scope |-> c.scope, type |-> c.type, after |-> c.after,
   ok |-> r.ok, val |-> r.val, err |-> r.err]

\* The top frame of p returns r: to the frame below it, or, when it is the
\* frame of the top-level call, to the caller of the container.
Finish(p, r) ==
  IF Len(stack[p]) = 1
  THEN /\ stack' = [stack EXCEPT ![p] = <<>>]
       /\ returned' = returned \cup {Returned(call[p], r)}
       /\ call' = [call EXCEPT ![p] = NoCall]
  ELSE /\ stack' = [stack EXCEPT ![p] =
                      [SubSeq(@, 1, Len(@) - 1) EXCEPT ![Len(@) - 1].ret = r]]
       /\ UNCHANGED <<returned, call>>

\* A defective construction: the instance built first for the type and scope
\* is kept and handed out again.
CachedInstance(t, s) ==
  IF \E i \in DOMAIN created : created[i].type = t /\ created[i].scope = s
  THEN created
  ELSE Append(created, [type |-> t, scope |-> s, failed |-> FALSE])

\* reflect.New, or a constructor's or factory's result: an instance that did not
\* exist before, built for scope s (0: for the container).
NewInstance(t, s) == Append(created, [type |-> t, scope |-> s, failed |-> FALSE])

\* A constructor or factory that ran and returned an error.
FailedConstruction(t, s) == Append(created, [type |-> t, scope |-> s, failed |-> TRUE])

FreshId == Len(created) + 1

\* Nasc.AutoWire on instance i once injectField resolved the tagged field
\* (with Nasc.Make) and set it, which leaves the instance wired.
AutoWire(log, i) ==
  [log EXCEPT ![i] = [type |-> @.type, scope |-> @.scope, failed |-> @.failed,
                      wired |-> TRUE]]

\* The instance had its tagged fields injected.
Wired(i) == "wired" \in DOMAIN created[i]

Panic == Fail(Err("panic"))

\* The interfaces whose bound struct does not implement them: Bind, Singleton
\* and Scoped check that the concrete value is a pointer to a struct, never
\* that its type implements the abstract type.
UnfitTypes == {"N"}

\* reflect.Value.Call accepts the arguments: each resolved instance is
\* assignable to the type of its parameter.
Assignable(params) == \A i \in DOMAIN params : params[i] \notin UnfitTypes

\* reflect.Value.Call panics with "reflect: Call using ... as type ...".
CallPanic == Fail(Err("reflect: Call using value as type"))

\* ------------------------------------------------------ resolutionContext

\* A defective push: on a cycle the repeated key is not appended to the stack.
pushWithoutRepeatedKey(rc, typeName) ==
  IF typeName \in rc.seen
  THEN [rc |-> rc, cycle |-> TRUE]
  ELSE [rc |-> [stack |-> Append(rc.stack, typeName),
                seen |-> rc.seen \cup {typeName}], cycle |-> FALSE]

\* resolutionContext.push: the context after the push and whether the key was
\* already on the path.  The key is appended to the stack in both cases.
push(rc, typeName) ==
  IF typeName \in rc.seen
  THEN [rc |-> [rc EXCEPT !.stack = Append(@, typeName)], cycle |-> TRUE]
  ELSE [rc |-> [stack |-> Append(rc.stack, typeName),
                seen |-> rc.seen \cup {typeName}], cycle |-> FALSE]

\* A defective pop: the key is taken off the stack but stays in the seen set.
popKeepsSeen(rc) ==
  IF Len(rc.stack) > 0
  THEN [stack |-> SubSeq(rc.stack, 1, Len(rc.stack) - 1), seen |-> rc.seen]
  ELSE rc

\* resolutionContext.pop
pop(rc) ==
  IF Len(rc.stack) > 0
  THEN [stack |-> SubSeq(rc.stack, 1, Len(rc.stack) - 1),
        seen |-> rc.seen \ {rc.stack[Len(rc.stack)]}]
  ELSE rc

\* ------------------------------------------------ Nasc.Make (panicking path)

\* Nasc.Make up to the dispatch on the lifetime: nil type, missing binding and
\* scoped binding panic; a transient binding without a constructor is
\* instantiated with reflect.New; a factory binding calls the user's factory.
MakeStart(p) ==
  /\ ~Idle(p)
  /\ Top(p).kind = "Make" /\ Top(p).phase = "start"
  /\ LET t == Top(p).type
         b == IF t = NilType THEN NoBinding ELSE registry[t]
     IN CASE b.Lifetime = LifetimeTransient /\ b.Constructor ->
               /\ stack' = PushFrame(p, [Top(p) EXCEPT !.phase = "ctor"],
                                     Frame("invokeConstructor", t, 0, "params"))
               /\ UNCHANGED <<created, returned, call>>
          [] b.Lifetime = LifetimeTransient /\ ~b.Constructor ->
               /\ created' = NewInstance(t, 0)
               /\ Finish(p, Ok(FreshId))
          [] b.Lifetime = LifetimeSingleton ->
               /\ stack' = SetTop(p, [Top(p) EXCEPT !.phase = "getOrCreate"])
               /\ UNCHANGED <<created, returned, call>>
          [] b.Lifetime = LifetimeFactory /\ ~b.ctorFails ->
               /\ created' = NewInstance(t, 0)
               /\ Finish(p, Ok(FreshId))
          [] b.Lifetime = LifetimeFactory /\ b.ctorFails ->
               /\ created' = FailedConstruction(t, 0)
               /\ Finish(p, Panic)
          [] OTHER ->
               /\ Finish(p, Panic)
               /\ UNCHANGED created
  /\ UNCHANGED <<registry, named, validation, singletons, scopes, ctx, ncalls, parentScope,
                 cleanupLog, initLog, disposeReturned, providers, bootLog>>

\* Nasc.Make, transient constructor binding, after invokeConstructor returned:
\* its error becomes a panic.
MakeCtorDone(p) ==
  /\ ~Idle(p)
  /\ Top(p).kind = "Make" /\ Top(p).phase = "ctor" /\ Top(p).ret # NoRet
  /\ Finish(p, IF Top(p).ret.ok THEN Ok(Top(p).ret.val) ELSE Panic)
  /\ UNCHANGED <<registry, named, validation, singletons, scopes, created, ctx, ncalls, parentScope,
                 cleanupLog, initLog, disposeReturned, providers, bootLog>>

\* ------------------------------------------------ singletonCache.getOrCreate
\* The frames of Nasc.Make, makeSafeWithContext and MakeAll (through
\* createSingletonInstance) run getOrCreate for a singleton binding; the cache
\* key of an unnamed binding is the abstract type.

InGetOrCreate(p, phase) ==
  /\ ~Idle(p)
  /\ Top(p).kind \in {"Make", "MakeSafe", "MakeAll"}
  /\ Top(p).phase = phase

\* Fast path: the read-locked lookup of the cell.
GetOrCreateFast(p) ==
  /\ InGetOrCreate(p, "getOrCreate")
  /\ stack' = SetTop(p, [Top(p) EXCEPT !.phase =
                 IF singletons[Top(p).type].present THEN "once" ELSE "slow"])
  /\ UNCHANGED <<registry, named, validation, singletons, scopes, created, ctx, call, ncalls, returned,
                 parentScope, cleanupLog, initLog, disposeReturned, providers, bootLog>>

\* The cell found under the write lock, or a new one inserted.
RecheckCell(cell) == IF cell.present THEN cell ELSE NewCell

\* Slow path: the write-locked recheck and insert of the cell.
GetOrCreateSlow(p) ==
  /\ InGetOrCreate(p, "slow")
  /\ singletons' = [singletons EXCEPT ![Top(p).type] = RecheckCell(@)]
  /\ stack' = SetTop(p, [Top(p) EXCEPT !.phase = "once"])
  /\ UNCHANGED <<registry, named, validation, scopes, created, ctx, call, ncalls, returned,
                 parentScope, cleanupLog, initLog, disposeReturned, providers, bootLog>>

\* A defective Once: a caller is let in whenever Do has not completed, also
\* while another caller is running the factory.
OnceAdmitsUnfinished(cell) == cell.once # "done"

\* sync.Once.Do lets a caller in when no call of Do has started.
OnceAdmits(cell) == cell.once = "new"

\* sync.Once.Do: the first caller enters and will run the factory; a caller
\* that finds Do completed goes on; a caller that finds Do in progress waits
\* (no step), also when the Do in progress is its own.
OnceDo(p) ==
  /\ InGetOrCreate(p, "once")
  /\ LET cell == singletons[Top(p).type]
     IN \/ /\ OnceAdmits(cell)
           /\ singletons' = [singletons EXCEPT ![Top(p).type].once = "running"]
           /\ stack' = SetTop(p, [Top(p) EXCEPT !.phase = "factory"])
        \/ /\ cell.once = "done"
           /\ stack' = SetTop(p, [Top(p) EXCEPT !.phase = "result"])
           /\ UNCHANGED singletons
  /\ UNCHANGED <<registry, named, validation, scopes, created, ctx, call, ncalls, returned,
                 parentScope, cleanupLog, initLog, disposeReturned, providers, bootLog>>

\* The factory closure inside Do: a constructor binding calls invokeConstructor
\* (invokeConstructorSafe on the safe path); otherwise reflect.New, and Do is
\* complete.
FactoryBody(p) ==
  /\ InGetOrCreate(p, "factory") /\ Top(p).ret = NoRet
  /\ LET t == Top(p).type
     IN IF registry[t].Constructor
        THEN /\ stack' = PushFrame(p, Top(p),
                            Frame(IF Top(p).kind = "MakeSafe" THEN "invokeConstructorSafe"
                                  ELSE "invokeConstructor", t, 0, "params"))
             /\ UNCHANGED <<singletons, created>>
        ELSE /\ created' = NewInstance(t, 0)
             /\ singletons' = [singletons EXCEPT ![t] =
                                 [@ EXCEPT !.once = "done", !.value = FreshId]]
             /\ stack' = SetTop(p, [Top(p) EXCEPT !.phase = "result"])
  /\ UNCHANGED <<registry, named, validation, scopes, ctx, call, ncalls, returned,
                 parentScope, cleanupLog, initLog, disposeReturned, providers, bootLog>>

\* The constructor called by the factory closure returned: value and err of
\* the cell are assigned and Do is complete.  A panic of the constructor call
\* leaves the cell unassigned with Do complete and unwinds through getOrCreate
\* (makeSafeWithContext's deferred pop runs).
FactoryCtorDone(p) ==
  /\ InGetOrCreate(p, "factory") /\ Top(p).ret # NoRet
  /\ Top(p).kind # "MakeAll"
  /\ IF Top(p).ret = CallPanic
     THEN /\ singletons' = [singletons EXCEPT ![Top(p).type].once = "done"]
          /\ Finish(p, IF Top(p).kind = "MakeSafe" THEN CallPanic ELSE Panic)
          /\ ctx' = [ctx EXCEPT ![p] = IF Top(p).kind = "MakeSafe" THEN pop(@) ELSE @]
     ELSE /\ singletons' = [singletons EXCEPT ![Top(p).type] =
                              [@ EXCEPT !.once = "done", !.value = Top(p).ret.val,
                                        !.err = Top(p).ret.err]]
          /\ stack' = SetTop(p, [Top(p) EXCEPT !.phase = "result", !.ret = NoRet])
          /\ UNCHANGED <<ctx, call, returned>>
  /\ UNCHANGED <<registry, named, validation, scopes, created, ncalls,
                 parentScope, cleanupLog, initLog, disposeReturned, providers, bootLog>>

\* The closure of createSingletonInstance panics in createRawInstance when the
\* constructor failed: the assignment to value and err of the cell is not
\* reached, so err stays nil.
RawFailure(ret) == NoErr

\* The constructor called by the closure of createSingletonInstance returned.
\* createRawInstance turns its error into a panic inside Do: sync.Once counts
\* the panicking call as completed, the cell keeps value nil and err nil, and
\* the panic unwinds through getOrCreate to the caller of MakeAll.
RawFactoryCtorDone(p) ==
  /\ InGetOrCreate(p, "factory") /\ Top(p).ret # NoRet
  /\ Top(p).kind = "MakeAll"
  /\ IF Top(p).ret.ok
     THEN /\ singletons' = [singletons EXCEPT ![Top(p).type] =
                              [@ EXCEPT !.once = "done", !.value = Top(p).ret.val]]
          /\ stack' = SetTop(p, [Top(p) EXCEPT !.phase = "result", !.ret = NoRet])
          /\ UNCHANGED <<returned, call>>
     ELSE /\ singletons' = [singletons EXCEPT ![Top(p).type] =
                              [@ EXCEPT !.once = "done", !.err = RawFailure(Top(p).ret)]]
          /\ Finish(p, Panic)
  /\ UNCHANGED <<registry, named, validation, scopes, created, ctx, ncalls,
                 parentScope, cleanupLog, initLog, disposeReturned, providers, bootLog>>

\* What getOrCreate returns: (instance.value, instance.err).
CellResult(cell) == IF cell.err = NoErr THEN Ok(cell.value) ELSE Fail(cell.err)

\* Nasc.Make, singleton binding, after getOrCreate returned: an error becomes
\* a panic.
MakeSingletonResult(p) ==
  /\ ~Idle(p)
  /\ Top(p).kind = "Make" /\ Top(p).phase = "result"
  /\ LET r == CellResult(singletons[Top(p).type])
     IN Finish(p, IF r.ok THEN r ELSE Panic)
  /\ UNCHANGED <<registry, named, validation, singletons, scopes, created, ctx, ncalls, parentScope,
                 cleanupLog, initLog, disposeReturned, providers, bootLog>>

\* ------------------------------------------------------------ Nasc.MakeAll

\* Registry.GetAll finds a named binding of the type.
HasNamed(t) == \E n \in AllNames : named[t][n] # NoNamedBinding

\* The log with k more entries e.
RECURSIVE AppendTimes(_, _, _)
AppendTimes(log, e, k) ==
  IF k = 0 THEN log ELSE AppendTimes(Append(log, e), e, k - 1)

\* The `created` log after one reflect.New per named binding of t (named
\* bindings are transient and have no constructor).
WithNamedInstances(log, t) ==
  AppendTimes(log, [type |-> t, scope |-> 0, failed |-> FALSE],
              Cardinality({n \in AllNames : named[t][n] # NoNamedBinding}))

\* MakeAll up to createInstanceFromBinding for the unnamed binding, which
\* GetAll lists first: a transient binding is built by createRawInstance and,
\* with AutoWireEnabled, handed to AutoWire, whose injectField resolves the
\* tagged field with Nasc.Make; a
\* singleton one goes to createSingletonInstance, a factory is called, and any
\* other lifetime (scoped) panics with "unknown lifetime".
MakeAllStart(p) ==
  /\ ~Idle(p)
  /\ Top(p).kind = "MakeAll" /\ Top(p).phase = "start"
  /\ LET t == Top(p).type
         b == IF t = NilType THEN NoBinding ELSE registry[t]
     IN CASE t = NilType ->
               /\ Finish(p, Panic)
               /\ UNCHANGED created
          [] t # NilType /\ b = NoBinding ->
               /\ stack' = SetTop(p, [Top(p) EXCEPT !.phase = "named"])
               /\ UNCHANGED <<created, returned, call>>
          [] b.Lifetime = LifetimeTransient /\ b.Constructor ->
               /\ stack' = PushFrame(p, [Top(p) EXCEPT !.phase = "ctor"],
                                     Frame("invokeConstructor", t, 0, "params"))
               /\ UNCHANGED <<created, returned, call>>
          [] b.Lifetime = LifetimeTransient /\ ~b.Constructor /\ ~AutoWireEnabled(b) ->
               /\ created' = NewInstance(t, 0)
               /\ stack' = SetTop(p, [Top(p) EXCEPT !.phase = "named", !.inst = FreshId])
               /\ UNCHANGED <<returned, call>>
          [] b.Lifetime = LifetimeTransient /\ ~b.Constructor /\ AutoWireEnabled(b) ->
               /\ created' = NewInstance(t, 0)
               /\ stack' = PushFrame(p, [Top(p) EXCEPT !.phase = "autowire", !.inst = FreshId],
                                     Frame("Make", InjectedField, 0, "start"))
               /\ UNCHANGED <<returned, call>>
          [] b.Lifetime = LifetimeSingleton ->
               /\ stack' = SetTop(p, [Top(p) EXCEPT !.phase = "getOrCreate"])
               /\ UNCHANGED <<created, returned, call>>
          [] b.Lifetime = LifetimeFactory /\ ~b.ctorFails ->
               /\ created' = NewInstance(t, 0)
               /\ stack' = SetTop(p, [Top(p) EXCEPT !.phase = "named", !.inst = FreshId])
               /\ UNCHANGED <<returned, call>>
          [] b.Lifetime = LifetimeFactory /\ b.ctorFails ->
               /\ created' = FailedConstruction(t, 0)
               /\ Finish(p, Panic)
          [] OTHER ->
               /\ Finish(p, Panic)
               /\ UNCHANGED created
  /\ UNCHANGED <<registry, named, validation, singletons, scopes, ctx, ncalls, parentScope,
                 cleanupLog, initLog, disposeReturned, providers, bootLog>>

\* injectField after Nasc.Make returned or panicked (the panic is recovered):
\* the field is set and the instance is wired, or AutoWire returns the error,
\* which createTransientInstance turns into a panic.
AutoWireDone(p) ==
  /\ ~Idle(p)
  /\ Top(p).kind = "MakeAll" /\ Top(p).phase = "autowire" /\ Top(p).ret # NoRet
  /\ IF Top(p).ret.ok
     THEN /\ created' = AutoWire(created, Top(p).inst)
          /\ stack' = SetTop(p, [Top(p) EXCEPT !.phase = "named", !.ret = NoRet])
          /\ UNCHANGED <<returned, call>>
     ELSE /\ Finish(p, Panic)
          /\ UNCHANGED created
  /\ UNCHANGED <<registry, named, validation, singletons, scopes, ctx, ncalls, parentScope,
                 cleanupLog, initLog, disposeReturned, providers, bootLog>>

\* createRawInstance for a transient constructor binding: the constructor's
\* error becomes a panic.
MakeAllCtorDone(p) ==
  /\ ~Idle(p)
  /\ Top(p).kind = "MakeAll" /\ Top(p).phase = "ctor" /\ Top(p).ret # NoRet
  /\ IF Top(p).ret.ok
     THEN /\ stack' = SetTop(p, [Top(p) EXCEPT !.phase = "named",
                                   !.inst = Top(p).ret.val, !.ret = NoRet])
          /\ UNCHANGED <<returned, call>>
     ELSE Finish(p, Panic)
  /\ UNCHANGED <<registry, named, validation, singletons, scopes, created, ctx, ncalls,
                 parentScope, cleanupLog, initLog, disposeReturned, providers, bootLog>>

\* createSingletonInstance after getOrCreate returned: an error becomes a
\* panic, otherwise the instance goes into the result.
MakeAllSingletonResult(p) ==
  /\ ~Idle(p)
  /\ Top(p).kind = "MakeAll" /\ Top(p).phase = "result"
  /\ LET r == CellResult(singletons[Top(p).type])
     IN IF r.ok
        THEN /\ stack' = SetTop(p, [Top(p) EXCEPT !.phase = "named", !.inst = r.val])
             /\ UNCHANGED <<returned, call>>
        ELSE Finish(p, Panic)
  /\ UNCHANGED <<registry, named, validation, singletons, scopes, created, ctx, ncalls,
                 parentScope, cleanupLog, initLog, disposeReturned, providers, bootLog>>

\* MakeAll, the rest of the loop and the return: one new instance per named
\* binding; the call returns the slice, of which the record keeps the
\* instance of the unnamed binding (0 when there is none).
MakeAllReturn(p) ==
  /\ ~Idle(p)
  /\ Top(p).kind = "MakeAll" /\ Top(p).phase = "named"
  /\ created' = WithNamedInstances(created, Top(p).type)
  /\ Finish(p, Ok(Top(p).inst))
  /\ UNCHANGED <<registry, named, validation, singletons, scopes, ctx, ncalls, parentScope,
                 cleanupLog, initLog, disposeReturned, providers, bootLog>>

\* ------------------------------------------------------- invokeConstructor

\* A defective resolution of a parameter: through the scope whose Make asked
\* for the construction, when there is one.
ParamResolutionInScope(p, t) ==
  IF stack[p][1].kind = "ScopeMake" /\ registry[t].Lifetime = LifetimeScoped
  THEN Frame("ScopeMake", t, stack[p][1].scope, "fast")
  ELSE Frame("Make", t, 0, "start")

\* invokeConstructor resolves a parameter of type t with n.Make, the Make of
\* the container, whoever called invokeConstructor.
ParamResolution(p, t) == Frame("Make", t, 0, "start")

\* invokeConstructor, the loop over the parameters: each is resolved with
\* Nasc.Make, whose panic is recovered.
CtorResolveParam(p) ==
  /\ ~Idle(p)
  /\ Top(p).kind = "invokeConstructor" /\ Top(p).ret = NoRet
  /\ Top(p).i <= Len(registry[Top(p).type].paramTypes)
  /\ IF IsInterface(registry[Top(p).type].paramTypes[Top(p).i])
     THEN /\ stack' = PushFrame(p, Top(p),
                         ParamResolution(p, registry[Top(p).type].paramTypes[Top(p).i]))
          /\ UNCHANGED <<returned, call>>
     ELSE Finish(p, Fail(Err("parameter must be an interface")))
  /\ UNCHANGED <<registry, named, validation, singletons, scopes, created, ctx, ncalls,
                 parentScope, cleanupLog, initLog, disposeReturned, providers, bootLog>>

\* invokeConstructor, a parameter's Make returned or panicked: a recovered
\* panic is returned as an error, otherwise the loop goes on.
CtorParamResolved(p) ==
  /\ ~Idle(p)
  /\ Top(p).kind = "invokeConstructor" /\ Top(p).ret # NoRet
  /\ IF Top(p).ret.ok
     THEN /\ stack' = SetTop(p, [Top(p) EXCEPT !.i = @ + 1, !.ret = NoRet])
          /\ UNCHANGED <<returned, call>>
     ELSE Finish(p, Fail(Err("resolve")))
  /\ UNCHANGED <<registry, named, validation, singletons, scopes, created, ctx, ncalls, parentScope,
                 cleanupLog, initLog, disposeReturned, providers, bootLog>>

\* invokeConstructor, the call of the constructor function with the resolved
\* parameters: its instance, or its error wrapped.
CtorInvoke(p) ==
  /\ ~Idle(p)
  /\ Top(p).kind = "invokeConstructor" /\ Top(p).ret = NoRet
  /\ Top(p).i > Len(registry[Top(p).type].paramTypes)
  /\ CASE ~Assignable(registry[Top(p).type].paramTypes) ->
             /\ Finish(p, CallPanic)
             /\ UNCHANGED created
       [] Assignable(registry[Top(p).type].paramTypes) /\ registry[Top(p).type].ctorFails ->
             /\ created' = FailedConstruction(Top(p).type, Top(p).scope)
             /\ Finish(p, Fail(Err("constructor")))
       [] OTHER ->
             /\ created' = NewInstance(Top(p).type, Top(p).scope)
             /\ Finish(p, Ok(FreshId))
  /\ UNCHANGED <<registry, named, validation, singletons, scopes, ctx, ncalls, parentScope,
                 cleanupLog, initLog, disposeReturned, providers, bootLog>>

\* --------------------------------------------- MakeSafe (the checked path)

\* CircularDependencyError{Path: rc.stack}
CircularDependencyError(rc) == [kind |-> "cycle", path |-> rc.stack]

\* makeSafeWithContext up to the dispatch of createInstanceSafe: the push of the
\* type key (a cycle returns before the deferred pop is registered), the
\* lookup of the binding, and the lifetimes that need no further call.
SafeStart(p) ==
  /\ ~Idle(p)
  /\ Top(p).kind = "MakeSafe" /\ Top(p).phase = "start"
  /\ LET t == Top(p).type
         b == registry[t]
         pushed == push(ctx[p], t)
     IN IF pushed.cycle
        THEN /\ ctx' = [ctx EXCEPT ![p] = pushed.rc]
             /\ Finish(p, Fail(CircularDependencyError(pushed.rc)))
             /\ UNCHANGED created
        ELSE CASE b.Lifetime = LifetimeTransient /\ b.Constructor ->
                    /\ ctx' = [ctx EXCEPT ![p] = pushed.rc]
                    /\ stack' = PushFrame(p, [Top(p) EXCEPT !.phase = "ctor"],
                                    Frame("invokeConstructorSafe", t, 0, "params"))
                    /\ UNCHANGED <<created, returned, call>>
               [] b.Lifetime = LifetimeTransient /\ ~b.Constructor ->
                    /\ ctx' = [ctx EXCEPT ![p] = pop(pushed.rc)]
                    /\ created' = NewInstance(t, 0)
                    /\ Finish(p, Ok(FreshId))
               [] b.Lifetime = LifetimeSingleton ->
                    /\ ctx' = [ctx EXCEPT ![p] = pushed.rc]
                    /\ stack' = SetTop(p, [Top(p) EXCEPT !.phase = "getOrCreate"])
                    /\ UNCHANGED <<created, returned, call>>
               [] b.Lifetime = LifetimeFactory /\ ~b.ctorFails ->
                    /\ ctx' = [ctx EXCEPT ![p] = pop(pushed.rc)]
                    /\ created' = NewInstance(t, 0)
                    /\ Finish(p, Ok(FreshId))
               [] b.Lifetime = LifetimeFactory /\ b.ctorFails ->
                    /\ ctx' = [ctx EXCEPT ![p] = pop(pushed.rc)]
                    /\ created' = FailedConstruction(t, 0)
                    /\ Finish(p, Fail(Err("factory")))
               [] b = NoBinding ->
                    /\ ctx' = [ctx EXCEPT ![p] = pop(pushed.rc)]
                    /\ Finish(p, Fail(Err("notfound")))
                    /\ UNCHANGED created
               [] OTHER ->
                    /\ ctx' = [ctx EXCEPT ![p] = pop(pushed.rc)]
                    /\ Finish(p, Fail(Err("unknown lifetime")))
                    /\ UNCHANGED created
  /\ UNCHANGED <<registry, named, validation, singletons, scopes, ncalls, parentScope,
                 cleanupLog, initLog, disposeReturned, providers, bootLog>>

\* makeSafeWithContext returns what createInstanceSafe returned, for a
\* transient constructor binding (invokeConstructorSafe's result) and for a
\* singleton (getOrCreate's result); the deferred pop runs.
SafeReturn(p) ==
  /\ ~Idle(p)
  /\ Top(p).kind = "MakeSafe"
  /\ \/ Top(p).phase = "ctor" /\ Top(p).ret # NoRet
        /\ Finish(p, Top(p).ret)
     \/ Top(p).phase = "result"
        /\ Finish(p, CellResult(singletons[Top(p).type]))
  /\ ctx' = [ctx EXCEPT ![p] = pop(@)]
  /\ UNCHANGED <<registry, named, validation, singletons, scopes, created, ncalls, parentScope,
                 cleanupLog, initLog, disposeReturned, providers, bootLog>>

\* invokeConstructorSafe, the loop over the parameters: each is resolved with
\* makeSafeWithContext on the caller's context.
SafeCtorResolveParam(p) ==
  /\ ~Idle(p)
  /\ Top(p).kind = "invokeConstructorSafe" /\ Top(p).ret = NoRet
  /\ Top(p).i <= Len(registry[Top(p).type].paramTypes)
  /\ stack' = PushFrame(p, Top(p),
                 Frame("MakeSafe", registry[Top(p).type].paramTypes[Top(p).i], 0, "start"))
  /\ UNCHANGED <<registry, named, validation, singletons, scopes, created, ctx, call, ncalls, returned,
                 parentScope, cleanupLog, initLog, disposeReturned, providers, bootLog>>

\* invokeConstructorSafe, a parameter resolved or failed: a failure is returned
\* as a ResolutionError that wraps its cause (errors.As finds the cause).
SafeCtorParamResolved(p) ==
  /\ ~Idle(p)
  /\ Top(p).kind = "invokeConstructorSafe" /\ Top(p).ret # NoRet
  /\ IF Top(p).ret.ok
     THEN /\ stack' = SetTop(p, [Top(p) EXCEPT !.i = @ + 1, !.ret = NoRet])
          /\ UNCHANGED <<returned, call>>
     ELSE Finish(p, Fail(Top(p).ret.err))
  /\ UNCHANGED <<registry, named, validation, singletons, scopes, created, ctx, ncalls, parentScope,
                 cleanupLog, initLog, disposeReturned, providers, bootLog>>

\* invokeConstructorSafe, the call of the constructor function: info.fn.Call
\* is not guarded, so an argument that is not assignable panics.
SafeCtorInvoke(p) ==
  /\ ~Idle(p)
  /\ Top(p).kind = "invokeConstructorSafe" /\ Top(p).ret = NoRet
  /\ Top(p).i > Len(registry[Top(p).type].paramTypes)
  /\ CASE ~Assignable(registry[Top(p).type].paramTypes) ->
             /\ Finish(p, CallPanic)
             /\ UNCHANGED created
       [] Assignable(registry[Top(p).type].paramTypes) /\ registry[Top(p).type].ctorFails ->
             /\ created' = FailedConstruction(Top(p).type, 0)
             /\ Finish(p, Fail(Err("constructor")))
       [] OTHER ->
             /\ created' = NewInstance(Top(p).type, 0)
             /\ Finish(p, Ok(FreshId))
  /\ UNCHANGED <<registry, named, validation, singletons, scopes, ctx, ncalls, parentScope,
                 cleanupLog, initLog, disposeReturned, providers, bootLog>>

\* -------------------------------------------------------------- Scope.Make

\* The scope's state after a freshly built instance is stored: entered in the
\* instance cache and appended to the creation-order log, lock released.
StoreInstance(sc, t, inst) ==
  [sc EXCEPT !.instances[t] = inst,
             !.creationOrder = Append(@, inst),
             !.mu = 0]

\* Scope.Make, scoped binding, the read-locked lookup in the scope's cache.
ScopeMakeFast(p) ==
  /\ ~Idle(p)
  /\ Top(p).kind = "ScopeMake" /\ Top(p).phase = "fast"
  /\ LET sc == scopes[Top(p).scope]
     IN /\ sc.mu = 0
        /\ IF sc.instances[Top(p).type] # 0
           THEN Finish(p, Ok(sc.instances[Top(p).type]))
           ELSE /\ stack' = SetTop(p, [Top(p) EXCEPT !.phase = "lock"])
                /\ UNCHANGED <<returned, call>>
  /\ UNCHANGED <<registry, named, validation, singletons, scopes, created, ctx, ncalls, parentScope,
                 cleanupLog, initLog, disposeReturned, providers, bootLog>>

\* Whether the write-locked recheck finds nothing in the cache and the
\* instance has to be created.
MustCreate(sc, t) == sc.instances[t] = 0

\* Scope.Make, scoped binding, the write lock taken: the recheck of the cache
\* and, on a miss, createInstance.  Without a constructor the instance is
\* built, stored and the lock released; with one the lock stays held while
\* invokeConstructor runs.
ScopeMakeLock(p) ==
  /\ ~Idle(p)
  /\ Top(p).kind = "ScopeMake" /\ Top(p).phase = "lock"
  /\ LET s == Top(p).scope
         t == Top(p).type
         sc == scopes[s]
     IN /\ sc.mu = 0
        /\ IF ~MustCreate(sc, t)
           THEN /\ stack' = SetTop(p, [Top(p) EXCEPT !.phase = "init",
                                                     !.inst = sc.instances[t]])
                /\ UNCHANGED <<scopes, created>>
           ELSE IF registry[t].Constructor
           THEN /\ scopes' = [scopes EXCEPT ![s].mu = p]
                /\ stack' = PushFrame(p, [Top(p) EXCEPT !.phase = "create"],
                                Frame("invokeConstructor", t, s, "params"))
                /\ UNCHANGED created
           ELSE /\ created' = NewInstance(t, s)
                /\ scopes' = [scopes EXCEPT ![s] = StoreInstance(@, t, FreshId)]
                /\ stack' = SetTop(p, [Top(p) EXCEPT !.phase = "init", !.inst = FreshId])
  /\ UNCHANGED <<registry, named, validation, singletons, ctx, call, ncalls, returned, parentScope,
                 cleanupLog, initLog, disposeReturned, providers, bootLog>>

\* Scope.Make, scoped binding, createInstance's constructor returned: the
\* instance is stored and the lock released, or createInstance panics and the
\* lock, which is not released by a defer, stays held.
ScopeMakeCreated(p) ==
  /\ ~Idle(p)
  /\ Top(p).kind = "ScopeMake" /\ Top(p).phase = "create" /\ Top(p).ret # NoRet
  /\ IF Top(p).ret.ok
     THEN /\ scopes' = [scopes EXCEPT ![Top(p).scope] =
                          StoreInstance(@, Top(p).type, Top(p).ret.val)]
          /\ stack' = SetTop(p, [Top(p) EXCEPT !.phase = "init",
                                               !.inst = Top(p).ret.val, !.ret = NoRet])
          /\ UNCHANGED <<returned, call>>
     ELSE /\ Finish(p, Panic)
          /\ UNCHANGED scopes
  /\ UNCHANGED <<registry, named, validation, singletons, created, ctx, ncalls, parentScope,
                 cleanupLog, initLog, disposeReturned, providers, bootLog>>

\* Scope.Make, transient binding: createInstance, nothing is cached.
ScopeMakeTransient(p) ==
  /\ ~Idle(p)
  /\ Top(p).kind = "ScopeMake" /\ Top(p).phase = "transient"
  /\ IF registry[Top(p).type].Constructor
     THEN IF Top(p).ret = NoRet
          THEN /\ stack' = PushFrame(p, Top(p),
                               Frame("invokeConstructor", Top(p).type, 0, "params"))
               /\ UNCHANGED <<created, returned, call>>
          ELSE IF Top(p).ret.ok
          THEN /\ stack' = SetTop(p, [Top(p) EXCEPT !.phase = "init",
                                                    !.inst = Top(p).ret.val, !.ret = NoRet])
               /\ UNCHANGED <<created, returned, call>>
          ELSE /\ Finish(p, Panic)
               /\ UNCHANGED created
     ELSE /\ created' = NewInstance(Top(p).type, 0)
          /\ stack' = SetTop(p, [Top(p) EXCEPT !.phase = "init", !.inst = FreshId])
          /\ UNCHANGED <<returned, call>>
  /\ UNCHANGED <<registry, named, validation, singletons, scopes, ctx, ncalls, parentScope,
                 cleanupLog, initLog, disposeReturned, providers, bootLog>>

\* Scope.Make, the Initialize hook of the instance about to be returned (of a
\* scoped binding: the one built or the one found by the recheck).
ScopeMakeInit(p) ==
  /\ ~Idle(p)
  /\ Top(p).kind = "ScopeMake" /\ Top(p).phase = "init"
  /\ LET b == registry[Top(p).type]
     IN /\ initLog' = IF b.initializable THEN Append(initLog, Top(p).inst) ELSE initLog
        /\ Finish(p, IF b.initializable /\ b.initFails THEN Panic ELSE Ok(Top(p).inst))
  /\ UNCHANGED <<registry, named, validation, singletons, scopes, created, ctx, ncalls, parentScope,
                 cleanupLog, disposeReturned, providers, bootLog>>

\* ------------------------------------------------------------ Scope.Dispose

\* A defective order of disposal: from the first index up to the last.
DisposeInCreationOrder(creationOrder) == creationOrder

\* The order in which Dispose visits the instances of the creation-order log:
\* from the last index down to the first.
DisposeOrder(creationOrder) ==
  [k \in 1..Len(creationOrder) |-> creationOrder[Len(creationOrder) + 1 - k]]

\* A defective end of Dispose: the lock is released but nothing is cleared and
\* the scope is not marked disposed.
DisposedNothingCleared(sc) == [sc EXCEPT !.mu = 0]

\* The scope's state when Dispose is through: cache and log cleared, disposed.
Disposed(sc) ==
  [sc EXCEPT !.instances = [t \in Types |-> 0],
             !.creationOrder = <<>>,
             !.disposed = TRUE,
             !.mu = 0]

\* The Dispose call of p's top frame returns r, to the Dispose of the parent
\* scope or to the caller.
DisposeReturn(p, r) ==
  /\ disposeReturned' = disposeReturned \cup {Top(p).scope}
  /\ UNCHANGED <<providers, bootLog>>
  /\ returned' = returned \cup
       {Returned([op |-> "Dispose", scope |-> Top(p).scope,
                  type |-> IF Len(stack[p]) = 1 THEN "-" ELSE "child",
                  after |-> Top(p).after], r)}
  /\ IF Len(stack[p]) = 1
     THEN /\ stack' = [stack EXCEPT ![p] = <<>>]
          /\ call' = [call EXCEPT ![p] = NoCall]
     ELSE /\ stack' = [stack EXCEPT ![p] =
                         [SubSeq(@, 1, Len(@) - 1) EXCEPT ![Len(@) - 1].ret = r]]
          /\ UNCHANGED call

\* A defective Dispose: it goes straight to the scope's own instances and
\* leaves the child scopes alone.
DisposeSkipsChildren == "instances"

\* What Dispose does first once it holds the lock of a scope not yet disposed:
\* the loop over the child scopes.
DisposeFirstPhase == "children"

\* Dispose takes the scope's write lock; on a scope already disposed it
\* returns nil at once.
DisposeLock(p) ==
  /\ ~Idle(p)
  /\ Top(p).kind = "Dispose" /\ Top(p).phase = "lock"
  /\ LET s == Top(p).scope
     IN /\ scopes[s].mu = 0
        /\ IF scopes[s].disposed
           THEN /\ DisposeReturn(p, Ok(0))
                /\ UNCHANGED scopes
           ELSE /\ scopes' = [scopes EXCEPT ![s].mu = p]
                /\ stack' = SetTop(p, [Top(p) EXCEPT !.phase = DisposeFirstPhase])
                /\ UNCHANGED <<returned, call, disposeReturned, providers, bootLog>>
  /\ UNCHANGED <<registry, named, validation, singletons, created, ctx, ncalls, parentScope,
                 cleanupLog, initLog>>

\* Dispose, the loop over the child scopes: Dispose is called on the next
\* child; after the last one the list of children is dropped.
DisposeChildren(p) ==
  /\ ~Idle(p)
  /\ Top(p).kind = "Dispose" /\ Top(p).phase = "children" /\ Top(p).ret = NoRet
  /\ LET s == Top(p).scope
         kids == scopes[s].children
     IN IF Top(p).i <= Len(kids)
        THEN /\ stack' = PushFrame(p, Top(p),
                            [Frame("Dispose", "-", kids[Top(p).i], "lock")
                               EXCEPT !.after = kids[Top(p).i] \in disposeReturned])
             /\ UNCHANGED scopes
        ELSE /\ scopes' = [scopes EXCEPT ![s].children = <<>>]
             /\ stack' = SetTop(p, [Top(p) EXCEPT !.phase = "instances", !.i = 1])
  /\ UNCHANGED <<registry, named, validation, singletons, created, ctx, call, ncalls, returned,
                 parentScope, cleanupLog, initLog, disposeReturned, providers, bootLog>>

\* Dispose, a child's Dispose returned: its error is collected.
DisposeChildReturned(p) ==
  /\ ~Idle(p)
  /\ Top(p).kind = "Dispose" /\ Top(p).phase = "children" /\ Top(p).ret # NoRet
  /\ stack' = SetTop(p, [Top(p) EXCEPT !.i = @ + 1, !.ret = NoRet,
                                       !.errs = @ + (IF Top(p).ret.ok THEN 0 ELSE 1)])
  /\ UNCHANGED <<registry, named, validation, singletons, scopes, created, ctx, call, ncalls, returned,
                 parentScope, cleanupLog, initLog, disposeReturned, providers, bootLog>>

\* A defective loop over the instances: it ends at the first hook that fails.
StopAtFailure(i, n, failed) == IF failed THEN n + 1 ELSE i + 1

\* The loop over the n instances goes on from index i to the next one, whether
\* the hook failed or not.
NextInstance(i, n, failed) == i + 1

\* Dispose, the loop over the scope's own instances: the Dispose hook of the
\* next instance that has one is called and its error collected.
DisposeInstance(p) ==
  /\ ~Idle(p)
  /\ Top(p).kind = "Dispose" /\ Top(p).phase = "instances"
  /\ Top(p).i <= Len(scopes[Top(p).scope].creationOrder)
  /\ LET inst == DisposeOrder(scopes[Top(p).scope].creationOrder)[Top(p).i]
         b == registry[created[inst].type]
     IN /\ cleanupLog' = IF b.disposable THEN Append(cleanupLog, inst) ELSE cleanupLog
        /\ stack' = SetTop(p, [Top(p) EXCEPT
               !.i = NextInstance(@, Len(scopes[Top(p).scope].creationOrder),
                                  b.disposable /\ b.disposeFails),
               !.errs = @ + (IF b.disposable /\ b.disposeFails THEN 1 ELSE 0)])
  /\ UNCHANGED <<registry, named, validation, singletons, scopes, created, ctx, call, ncalls, returned,
                 parentScope, initLog, disposeReturned, providers, bootLog>>

\* Dispose, after the last instance: cache and log are cleared, the scope is
\* marked disposed, the lock released and the collected errors returned as one.
DisposeFinish(p) ==
  /\ ~Idle(p)
  /\ Top(p).kind = "Dispose" /\ Top(p).phase = "instances"
  /\ Top(p).i > Len(scopes[Top(p).scope].creationOrder)
  /\ scopes' = [scopes EXCEPT ![Top(p).scope] = Disposed(@)]
  /\ DisposeReturn(p, IF Top(p).errs = 0 THEN Ok(0) ELSE Fail(Err("disposal")))
  /\ UNCHANGED <<registry, named, validation, singletons, created, ctx, ncalls, parentScope,
                 cleanupLog, initLog>>

\* ------------------------------------------------------ the top-level calls

\* A call that ends in its first step.
Immediate(p, c, r) ==
  /\ returned' = returned \cup {Returned(c, r)}
  /\ UNCHANGED <<stack, call>>

\* A call whose first step leaves frame f on the stack of p.
Enter(p, c, f) ==
  /\ stack' = [stack EXCEPT ![p] = <<f>>]
  /\ call' = [call EXCEPT ![p] = c]
  /\ UNCHANGED returned

\* Nasc.CreateScope
CreateScope(p) ==
  /\ Idle(p)
  /\ Len(scopes) < MaxScopes
  /\ scopes' = Append(scopes, NewScope)
  /\ parentScope' = Append(parentScope, 0)
  /\ UNCHANGED <<registry, named, validation, singletons, created, stack, ctx, call, ncalls, returned,
                 cleanupLog, initLog, disposeReturned, providers, bootLog>>

\* Whether CreateChildScope refuses and panics.
RefusesChild(sc) == sc.disposed

\* A defective CreateChildScope: it does not take the scope's lock.
ChildWithoutLock(sc) == TRUE

\* CreateChildScope takes the scope's write lock for the whole call and so
\* waits while another goroutine holds it.
ChildLock(sc) == sc.mu = 0

\* Scope.CreateChildScope, under the scope's write lock: panics on a disposed
\* scope, otherwise the child is appended to the scope's children.
CreateChildScope(p) ==
  \E s \in ScopeIds :
    /\ Idle(p)
    /\ ChildLock(scopes[s])
    /\ LET c == [op |-> "CreateChildScope", scope |-> s, type |-> "-",
                 after |-> s \in disposeReturned]
       IN IF RefusesChild(scopes[s])
          THEN /\ Immediate(p, c, Panic)
               /\ UNCHANGED <<scopes, parentScope>>
          ELSE /\ Len(scopes) < MaxScopes
               /\ scopes' = Append([scopes EXCEPT ![s].children =
                                       Append(@, Len(scopes) + 1)], NewScope)
               /\ parentScope' = Append(parentScope, s)
               /\ Immediate(p, c, Ok(Len(scopes) + 1))
    /\ UNCHANGED <<registry, named, validation, singletons, created, ctx, ncalls,
                   cleanupLog, initLog, disposeReturned, providers, bootLog>>

\* A defective check of the disposed flag: Scope.Make never refuses.
RefusesNever(sc) == FALSE

\* Whether Scope.Make refuses and panics.
RefusesMake(sc) == sc.disposed

\* The types requested of a scope.
ScopeTypes == {"X", "Y", "T", "S"}

\* A defective dispatch: transient bindings are cached in the scope as well.
CachedUnlessDelegated(b) == b.Lifetime \in {LifetimeScoped, LifetimeTransient}

\* The bindings whose instances Scope.Make keeps in the scope: the scoped ones.
CachedInScope(b) == b.Lifetime = LifetimeScoped

\* Scope.Make up to the dispatch on the lifetime: the nil check, the read-locked
\* check of the disposed flag and the lookup of the binding.  Singleton and
\* factory bindings are handed to the container's Make.
CallScopeMake(p) ==
  \E s \in ScopeIds, t \in ScopeTypes :
    /\ Idle(p)
    /\ ncalls < MaxCalls
    /\ scopes[s].mu = 0
    /\ ncalls' = ncalls + 1
    /\ LET c == [op |-> "ScopeMake", scope |-> s, type |-> t,
                 after |-> s \in disposeReturned]
           b == IF t = NilType THEN NoBinding ELSE registry[t]
       IN CASE t = NilType \/ RefusesMake(scopes[s]) \/ b = NoBinding ->
                 Immediate(p, c, Panic)
            [] OTHER ->
                 CASE CachedInScope(b) ->
                        Enter(p, c, Frame("ScopeMake", t, s, "fast"))
                   [] ~CachedInScope(b) /\ b.Lifetime \in {LifetimeSingleton, LifetimeFactory} ->
                        Enter(p, c, Frame("Make", t, 0, "start"))
                   [] ~CachedInScope(b) /\ b.Lifetime = LifetimeTransient ->
                        Enter(p, c, Frame("ScopeMake", t, s, "transient"))
                   [] OTHER -> Immediate(p, c, Panic)
    /\ UNCHANGED <<registry, named, validation, singletons, scopes, created, ctx, parentScope,
                   cleanupLog, initLog, disposeReturned, providers, bootLog>>

\* Scope.Dispose is called.
CallDispose(p) ==
  \E s \in ScopeIds :
    /\ Idle(p)
    /\ ncalls < MaxCalls
    /\ ncalls' = ncalls + 1
    /\ LET c == [op |-> "Dispose", scope |-> s, type |-> "-",
                 after |-> s \in disposeReturned]
       IN Enter(p, c, [Frame("Dispose", "-", s, "lock") EXCEPT !.after = c.after])
    /\ UNCHANGED <<registry, named, validation, singletons, scopes, created, ctx, parentScope,
                   cleanupLog, initLog, disposeReturned, providers, bootLog>>

\* Nasc.Make is called for type t.
CallMake(p, t) ==
  /\ Idle(p)
  /\ ncalls < MaxCalls
  /\ ncalls' = ncalls + 1
  /\ Enter(p, [op |-> "Make", scope |-> 0, type |-> t, after |-> FALSE],
           Frame("Make", t, 0, "start"))
  /\ UNCHANGED <<registry, named, validation, singletons, scopes, created, ctx, parentScope,
                 cleanupLog, initLog, disposeReturned, providers, bootLog>>

\* Nasc.MakeSafe is called for type t: a nil type is an error; otherwise a new
\* resolution context is made and makeSafeWithContext called.
CallMakeSafe(p, t) ==
  /\ Idle(p)
  /\ ncalls < MaxCalls
  /\ ncalls' = ncalls + 1
  /\ LET c == [op |-> "MakeSafe", scope |-> 0, type |-> t, after |-> FALSE]
     IN IF t = NilType
        THEN /\ Immediate(p, c, Fail(Err("invalid")))
             /\ UNCHANGED ctx
        ELSE /\ Enter(p, c, Frame("MakeSafe", t, 0, "start"))
             /\ ctx' = [ctx EXCEPT ![p] = NewContext]
  /\ UNCHANGED <<registry, named, validation, singletons, scopes, created, parentScope,
                 cleanupLog, initLog, disposeReturned, providers, bootLog>>

\* Nasc.MakeAll is called for type t.
CallMakeAll(p, t) ==
  /\ Idle(p)
  /\ ncalls < MaxCalls
  /\ ncalls' = ncalls + 1
  /\ Enter(p, [op |-> "MakeAll", scope |-> 0, type |-> t, after |-> FALSE],
           Frame("MakeAll", t, 0, "start"))
  /\ UNCHANGED <<registry, named, validation, singletons, scopes, created, ctx, parentScope,
                 cleanupLog, initLog, disposeReturned, providers, bootLog>>

\* A defective MustMake: the error of MakeSafe is returned, not raised.
MustMakeReturnsError(ret) == ret

\* MustMake's result: the instance of MakeSafe, or a panic with its error.
MustMakeResult(ret) == IF ret.ok THEN ret ELSE Panic

\* Nasc.MustMake is called for type t: it calls MakeSafe, which refuses a nil
\* type and otherwise resolves on a new context.
CallMustMake(p, t) ==
  /\ Idle(p)
  /\ ncalls < MaxCalls
  /\ ncalls' = ncalls + 1
  /\ LET c == [op |-> "MustMake", scope |-> 0, type |-> t, after |-> FALSE]
     IN IF t = NilType
        THEN /\ Immediate(p, c, MustMakeResult(Fail(Err("invalid"))))
             /\ UNCHANGED ctx
        ELSE /\ stack' = [stack EXCEPT ![p] = <<Frame("MustMake", t, 0, "call"),
                                                Frame("MakeSafe", t, 0, "start")>>]
             /\ call' = [call EXCEPT ![p] = c]
             /\ ctx' = [ctx EXCEPT ![p] = NewContext]
             /\ UNCHANGED returned
  /\ UNCHANGED <<registry, named, validation, singletons, scopes, created, parentScope,
                 cleanupLog, initLog, disposeReturned, providers, bootLog>>

\* MustMake, MakeSafe returned.
MustMakeReturn(p) ==
  /\ ~Idle(p)
  /\ Top(p).kind = "MustMake" /\ Top(p).ret # NoRet
  /\ Finish(p, MustMakeResult(Top(p).ret))
  /\ UNCHANGED <<registry, named, validation, singletons, scopes, created, ctx, ncalls,
                 parentScope, cleanupLog, initLog, disposeReturned, providers, bootLog>>

\* ----------------------------------------------------------- registration

\* A defective Register: a second binding for the type replaces the first.
RegisterOverwrites(bindings, t, b) ==
  IF bindings[t] # NoBinding
  THEN [bindings |-> [bindings EXCEPT ![t] = b], result |-> Fail(Err("exists"))]
  ELSE [bindings |-> [bindings EXCEPT ![t] = b], result |-> Ok(0)]

\* Registry.Register: under the write lock, a type that has a binding gets
\* BindingAlreadyExistsError and the map is left alone; otherwise the binding
\* is stored.
Register(bindings, t, b) ==
  IF bindings[t] # NoBinding
  THEN [bindings |-> bindings, result |-> Fail(Err("exists"))]
  ELSE [bindings |-> [bindings EXCEPT ![t] = b], result |-> Ok(0)]

\* Bind, Singleton, Scoped, Factory and the constructor variants for a valid
\* type: the binding is built and handed to Registry.Register, whose error is
\* returned.
CallRegister(p, t, b) ==
  /\ Idle(p)
  /\ ncalls < MaxCalls
  /\ ncalls' = ncalls + 1
  /\ LET reg == Register(registry, t, b)
     IN /\ registry' = reg.bindings
        /\ Immediate(p, [op |-> "Register", scope |-> 0, type |-> t, after |-> FALSE],
                     reg.result)
  /\ UNCHANGED <<named, validation, singletons, scopes, created, ctx, parentScope,
                 cleanupLog, initLog, disposeReturned, providers, bootLog>>

\* Bind, Singleton, Scoped and BindAutoWire with any arguments: a nil type, a
\* nil concrete value and a value that is not a pointer to a struct are
\* InvalidBindingErrors; otherwise the binding is handed to Registry.Register.
CallBind(p, t, c, lifetime) ==
  /\ Idle(p)
  /\ ncalls < MaxCalls
  /\ ncalls' = ncalls + 1
  /\ LET reg == IF t = NilType \/ c \in InvalidConcretes
                THEN [bindings |-> registry, result |-> Fail(Err("invalid"))]
                ELSE Register(registry, t, Plain(lifetime))
     IN /\ registry' = reg.bindings
        /\ Immediate(p, [op |-> "Bind", scope |-> 0, type |-> t, after |-> FALSE],
                     reg.result)
  /\ UNCHANGED <<named, validation, singletons, scopes, created, ctx, parentScope,
                 cleanupLog, initLog, disposeReturned, providers, bootLog>>

\* BindAutoWire: the checks of Bind, then the transient binding with
\* AutoWireEnabled set is handed to Registry.Register.
CallBindAutoWire(p, t, c) ==
  /\ Idle(p)
  /\ ncalls < MaxCalls
  /\ ncalls' = ncalls + 1
  /\ LET reg == IF t = NilType \/ c \in InvalidConcretes
                THEN [bindings |-> registry, result |-> Fail(Err("invalid"))]
                ELSE Register(registry, t, AutoWireBinding)
     IN /\ registry' = reg.bindings
        /\ Immediate(p, [op |-> "BindAutoWire", scope |-> 0, type |-> t, after |-> FALSE],
                     reg.result)
  /\ UNCHANGED <<named, validation, singletons, scopes, created, ctx, parentScope,
                 cleanupLog, initLog, disposeReturned, providers, bootLog>>

\* A constructor argument: whether it is a function with a supported result
\* list, and its parameter types.
ConstructorArg(valid, params) == [valid |-> valid, params |-> params]

\* parseConstructor: nil, a non-function and an unsupported result list are
\* errors; the parameter types are recorded as they are, whatever their kind.
parseConstructor(c) ==
  IF c.valid THEN [ok |-> TRUE, paramTypes |-> c.params]
  ELSE [ok |-> FALSE, paramTypes |-> <<>>]

\* bindConstructorWithLifetime (BindConstructor, SingletonConstructor,
\* ScopedConstructor): a nil type and a constructor that does not parse are
\* InvalidBindingErrors; otherwise the binding is handed to Registry.Register.
CallBindConstructor(p, t, c, lifetime) ==
  /\ Idle(p)
  /\ ncalls < MaxCalls
  /\ ncalls' = ncalls + 1
  /\ LET info == parseConstructor(c)
         reg == IF t = NilType \/ ~info.ok
                THEN [bindings |-> registry, result |-> Fail(Err("invalid"))]
                ELSE Register(registry, t, Ctor(lifetime, info.paramTypes))
     IN /\ registry' = reg.bindings
        /\ Immediate(p, [op |-> "BindConstructor", scope |-> 0, type |-> t,
                         after |-> FALSE], reg.result)
  /\ UNCHANGED <<named, validation, singletons, scopes, created, ctx, parentScope,
                 cleanupLog, initLog, disposeReturned, providers, bootLog>>

\* makeSafeWithContext's key of a named binding: "type[name]".
Key(t, n) == t \o "[" \o n \o "]"

\* A defective RegisterNamed: a second binding under the name replaces the
\* first.
RegisterNamedOverwrites(bindings, t, b) ==
  IF bindings[t][b.Name] # NoNamedBinding
  THEN [bindings |-> [bindings EXCEPT ![t][b.Name] = b],
        result |-> Fail(Err("exists"))]
  ELSE [bindings |-> [bindings EXCEPT ![t][b.Name] = b], result |-> Ok(0)]

\* Registry.RegisterNamed: under the write lock, a (type, name) pair that has a
\* binding gets an error and the map is left alone; otherwise the binding is
\* stored under its name.
RegisterNamed(bindings, t, b) ==
  IF bindings[t][b.Name] # NoNamedBinding
  THEN [bindings |-> bindings, result |-> Fail(Err("exists"))]
  ELSE [bindings |-> [bindings EXCEPT ![t][b.Name] = b], result |-> Ok(0)]

\* BindNamed: a nil type, a nil or non-struct concrete value and an empty name
\* are InvalidBindingErrors; otherwise the transient binding is built and
\* handed to Registry.RegisterNamed, whose error is returned.
CallBindNamed(p, t, n, c) ==
  /\ Idle(p)
  /\ ncalls < MaxCalls
  /\ ncalls' = ncalls + 1
  /\ LET reg == IF t = NilType \/ c \in InvalidConcretes \/ n = ""
                THEN [bindings |-> named, result |-> Fail(Err("invalid"))]
                ELSE RegisterNamed(named, t, NamedBinding(n, c))
     IN /\ named' = reg.bindings
        /\ Immediate(p, [op |-> "BindNamed", scope |-> 0, type |-> Key(t, n),
                         after |-> FALSE], reg.result)
  /\ UNCHANGED <<registry, validation, singletons, scopes, created, ctx, parentScope,
                 cleanupLog, initLog, disposeReturned, providers, bootLog>>

\* BindWithTags: the nil and the non-struct arguments are InvalidBindingErrors;
\* the name is then built from tags[0] with no check of the length, so an
\* empty or nil tag list panics (index out of range); otherwise the transient
\* binding is handed to Registry.RegisterNamed under the built name.
CallBindWithTags(p, t, c, tags) ==
  /\ Idle(p)
  /\ ncalls < MaxCalls
  /\ ncalls' = ncalls + 1
  /\ LET reg == CASE t = NilType \/ c \in InvalidConcretes ->
                      [bindings |-> named, result |-> Fail(Err("invalid"))]
                  [] t # NilType /\ c \notin InvalidConcretes /\ Len(tags) = 0 ->
                      [bindings |-> named, result |-> Panic]
                  [] OTHER ->
                      RegisterNamed(named, t, NamedBinding(TaggedName(tags, c), c))
     IN /\ named' = reg.bindings
        /\ Immediate(p, [op |-> "BindWithTags", scope |-> 0, type |-> t, after |-> FALSE],
                     reg.result)
  /\ UNCHANGED <<registry, validation, singletons, scopes, created, ctx, parentScope,
                 cleanupLog, initLog, disposeReturned, providers, bootLog>>

\* Registry.GetNamed: a type with no map of named bindings (none was ever
\* registered for it) gets BindingNotFoundError, a type with named bindings but
\* none under the name gets the "named binding not found" error; the unnamed
\* bindings are not consulted.
GetNamed(t, n) ==
  CASE ~HasNamed(t) -> Fail(Err("notfound"))
    [] HasNamed(t) /\ named[t][n] = NoNamedBinding -> Fail(Err("name not found"))
    [] OTHER -> Ok(0)

\* Registry.Get: under the read lock, the binding stored for the type, or
\* BindingNotFoundError.
Get(t) ==
  IF registry[t] = NoBinding
  THEN [binding |-> NoBinding, result |-> Fail(Err("notfound"))]
  ELSE [binding |-> registry[t], result |-> Ok(0)]

\* Registry.Get is called.
CallGet(p, t) ==
  /\ Idle(p)
  /\ ncalls < MaxCalls
  /\ ncalls' = ncalls + 1
  /\ Immediate(p, [op |-> "Get", scope |-> 0, type |-> t, after |-> FALSE], Get(t).result)
  /\ UNCHANGED <<registry, named, validation, singletons, scopes, created, ctx, parentScope,
                 cleanupLog, initLog, disposeReturned, providers, bootLog>>

\* Registry.GetNamed is called.
CallGetNamed(p, t, n) ==
  /\ Idle(p)
  /\ ncalls < MaxCalls
  /\ ncalls' = ncalls + 1
  /\ Immediate(p, [op |-> "GetNamed", scope |-> 0, type |-> Key(t, n), after |-> FALSE],
               GetNamed(t, n))
  /\ UNCHANGED <<registry, named, validation, singletons, scopes, created, ctx, parentScope,
                 cleanupLog, initLog, disposeReturned, providers, bootLog>>

\* Registry.RegisterNamed is called with binding b for type t.
CallRegisterNamed(p, t, b) ==
  /\ Idle(p)
  /\ ncalls < MaxCalls
  /\ ncalls' = ncalls + 1
  /\ LET reg == RegisterNamed(named, t, b)
     IN /\ named' = reg.bindings
        /\ Immediate(p, [op |-> "RegisterNamed", scope |-> 0, type |-> Key(t, b.Name),
                         after |-> FALSE], reg.result)
  /\ UNCHANGED <<registry, validation, singletons, scopes, created, ctx, parentScope,
                 cleanupLog, initLog, disposeReturned, providers, bootLog>>

\* MakeNamed for a valid type and name: GetNamed, whose error is a panic, then
\* createInstanceFromBinding.  A transient binding is built with reflect.New
\* of its concrete type.  A singleton binding goes through getOrCreate under
\* the key of named bindings: the cell found there is returned, otherwise the
\* instance is built with reflect.New and kept in the cell (the closure calls
\* nothing and cannot fail, so getOrCreate is one step).
CallMakeNamed(p, t, n) ==
  /\ Idle(p)
  /\ ncalls < MaxCalls
  /\ ncalls' = ncalls + 1
  /\ LET c == [op |-> "MakeNamed", scope |-> 0, type |-> Key(t, n), after |-> FALSE]
         built == [type |-> t, scope |-> 0, failed |-> FALSE,
                   concrete |-> named[t][n].ConcreteType]
     IN CASE named[t][n] = NoNamedBinding ->
               /\ Immediate(p, c, Panic)
               /\ UNCHANGED <<created, singletons>>
          [] named[t][n].Lifetime = LifetimeSingleton /\ singletons[NamedKey].present ->
               /\ Immediate(p, c, CellResult(singletons[NamedKey]))
               /\ UNCHANGED <<created, singletons>>
          [] named[t][n].Lifetime = LifetimeSingleton /\ ~singletons[NamedKey].present ->
               /\ created' = Append(created, built)
               /\ singletons' = [singletons EXCEPT ![NamedKey] =
                                   [NewCell EXCEPT !.once = "done", !.value = FreshId]]
               /\ Immediate(p, c, Ok(FreshId))
          [] OTHER ->
               /\ created' = Append(created, built)
               /\ Immediate(p, c, Ok(FreshId))
               /\ UNCHANGED singletons
  /\ UNCHANGED <<registry, named, validation, scopes, ctx, parentScope,
                 cleanupLog, initLog, disposeReturned, providers, bootLog>>

\* ---------------------------------------------------------- Nasc.Validate

\* Registry.GetAllTypes: the types that have an unnamed or a named binding.
GetAllTypes == {t \in Types : registry[t] # NoBinding \/ HasNamed(t)}

\* Validate is called: the types are read from the registry once.
CallValidate(p) ==
  /\ Idle(p)
  /\ ncalls < MaxCalls
  /\ ncalls' = ncalls + 1
  /\ Enter(p, [op |-> "Validate", scope |-> 0, type |-> "-", after |-> FALSE],
           Frame("Validate", "-", 0, "loop"))
  /\ validation' = [validation EXCEPT ![p] = [todo |-> GetAllTypes, errors |-> {}]]
  /\ UNCHANGED <<registry, named, singletons, scopes, created, ctx, parentScope,
                 cleanupLog, initLog, disposeReturned, providers, bootLog>>

\* Validate, the next type of the loop (the order is that of a Go map): an
\* unnamed binding is resolved with makeSafeWithContext on a new context; a
\* type with named bindings only has each of them resolved, which builds a
\* new instance (a named binding is transient and has no constructor).
ValidateNext(p) ==
  /\ ~Idle(p)
  /\ Top(p).kind = "Validate" /\ Top(p).phase = "loop"
  /\ \E t \in validation[p].todo :
       IF registry[t] # NoBinding
       THEN /\ ctx' = [ctx EXCEPT ![p] = NewContext]
            /\ stack' = PushFrame(p, [Top(p) EXCEPT !.phase = "unnamed", !.type = t],
                                  Frame("MakeSafe", t, 0, "start"))
            /\ UNCHANGED <<validation, created>>
       ELSE /\ created' = WithNamedInstances(created, t)
            /\ validation' = [validation EXCEPT ![p].todo = @ \ {t}]
            /\ UNCHANGED <<stack, ctx>>
  /\ UNCHANGED <<registry, named, singletons, scopes, call, ncalls, returned, parentScope,
                 cleanupLog, initLog, disposeReturned, providers, bootLog>>

\* A defective collection: only the first failure is kept.
CollectedFirstOnly(errors, t, r) ==
  IF r.ok \/ errors # {} THEN errors ELSE errors \cup {t}

\* The errors collected once the resolution of t returned r.  The slice is
\* kept as the set of the bindings it has an entry for: every type is
\* attempted once, and the order of the entries is that of a map iteration.
Collected(errors, t, r) == IF r.ok THEN errors ELSE errors \cup {t}

\* Validate, the unnamed binding's resolution returned: its error is appended
\* to the list; then the named bindings of the type are resolved.
ValidateCollect(p) ==
  /\ ~Idle(p)
  /\ Top(p).kind = "Validate" /\ Top(p).phase = "unnamed" /\ Top(p).ret # NoRet
  /\ validation' = [validation EXCEPT ![p] =
                      [todo |-> @.todo \ {Top(p).type},
                       errors |-> Collected(@.errors, Top(p).type, Top(p).ret)]]
  /\ created' = WithNamedInstances(created, Top(p).type)
  /\ stack' = SetTop(p, [Top(p) EXCEPT !.phase = "loop", !.type = "-", !.ret = NoRet])
  /\ UNCHANGED <<registry, named, singletons, scopes, ctx, call, ncalls, returned, parentScope,
                 cleanupLog, initLog, disposeReturned, providers, bootLog>>

\* The order in which the entries of a ValidationError are listed.
TypeOrder == <<"A", "B", "C", "D", "F", "G", "K", "M", "N", "P", "S", "T", "U", "X", "Y">>

\* ValidationError{Errors: validationErrors}
ValidationError(errors) ==
  [kind |-> "validation", path |-> SelectSeq(TypeOrder, LAMBDA t : t \in errors)]

\* Validate, after the loop: nil when no error was collected, otherwise the
\* ValidationError with all of them.
ValidateReturn(p) ==
  /\ ~Idle(p)
  /\ Top(p).kind = "Validate" /\ Top(p).phase = "loop"
  /\ validation[p].todo = {}
  /\ Finish(p, IF validation[p].errors = {} THEN Ok(0)
               ELSE Fail(ValidationError(validation[p].errors)))
  /\ validation' = [validation EXCEPT ![p] = NoValidation]
  /\ UNCHANGED <<registry, named, singletons, scopes, created, ctx, ncalls, parentScope,
                 cleanupLog, initLog, disposeReturned, providers, bootLog>>

\* A step of a Validate call in progress.
ValidateStep(p) ==
  \/ ValidateNext(p)
  \/ ValidateCollect(p)
  \/ ValidateReturn(p)

\* ------------------------------------------------------- service providers

\* The number of RegisterProvider and BootProviders calls.
MaxProviderCalls == 4

\* The provider types; pa and pb implement BootableProvider.
ProviderTypes == {"pa", "pb", "pc"}

BootableProviders == {"pa", "pb"}

\* RegisterProvider: a nil provider is an error; a deferred provider whose
\* ShouldRegister is false and a provider whose type is registered are
\* skipped; an error of the provider's Register is returned; otherwise the
\* provider is appended to Nasc.providers, not booted.
CallRegisterProvider(p, t, shouldRegister, registerFails) ==
  /\ Idle(p)
  /\ ncalls < MaxProviderCalls
  /\ ncalls' = ncalls + 1
  /\ LET c == [op |-> "RegisterProvider", scope |-> 0, type |-> t, after |-> FALSE]
         skipped == ~shouldRegister \/ \E k \in DOMAIN providers : providers[k].provider = t
     IN CASE t = NilType ->
               /\ Immediate(p, c, Fail(Err("invalid")))
               /\ UNCHANGED providers
          [] t # NilType /\ skipped ->
               /\ Immediate(p, c, Ok(0))
               /\ UNCHANGED providers
          [] t # NilType /\ ~skipped /\ registerFails ->
               /\ Immediate(p, c, Fail(Err("registration")))
               /\ UNCHANGED providers
          [] OTHER ->
               /\ Immediate(p, c, Ok(0))
               /\ providers' = Append(providers, [provider |-> t, booted |-> FALSE])
  /\ UNCHANGED <<registry, named, validation, singletons, scopes, created, ctx, parentScope,
                 cleanupLog, initLog, disposeReturned, bootLog>>

\* A defective loop: an entry is booted whether or not it was booted before.
BootsEveryBootable(entry) == entry.provider \in BootableProviders

\* BootProviders, whether the loop calls Boot on an entry: it is not booted
\* and its provider implements BootableProvider.
MustBoot(entry) == ~entry.booted /\ entry.provider \in BootableProviders

\* BootProviders, one call: the entries are visited in the order of the
\* slice; Boot is called on each entry that must boot and the entry is marked
\* booted when Boot returns nil; the first error of a Boot ends the loop.
\* fail is the entry whose Boot returns an error (0: none does).
CallBootProviders(p, fail) ==
  /\ Idle(p)
  /\ ncalls < MaxProviderCalls
  /\ ncalls' = ncalls + 1
  /\ fail = 0 \/ (fail \in DOMAIN providers /\ MustBoot(providers[fail]))
  /\ LET boots(k) == MustBoot(providers[k]) /\ (fail = 0 \/ k < fail)
     IN /\ providers' = [k \in DOMAIN providers |->
                           IF boots(k) THEN [providers[k] EXCEPT !.booted = TRUE]
                           ELSE providers[k]]
        /\ bootLog' = bootLog \o SelectSeq([k \in DOMAIN providers |-> k], boots)
        /\ Immediate(p, [op |-> "BootProviders", scope |-> 0, type |-> "-", after |-> FALSE],
                     IF fail = 0 THEN Ok(0) ELSE Fail(Err("boot")))
  /\ UNCHANGED <<registry, named, validation, singletons, scopes, created, ctx, parentScope,
                 cleanupLog, initLog, disposeReturned>>

\* --------------------------------------------------------- specifications

InitWith(bindings) ==
  /\ registry = bindings
  /\ named = NoNamed
  /\ validation = [p \in Procs |-> NoValidation]
  /\ singletons = [k \in Types \cup {NamedKey} |-> NoCell]
  /\ scopes = <<>>
  /\ created = <<>>
  /\ stack = [p \in Procs |-> <<>>]
  /\ ctx = [p \in Procs |-> NewContext]
  /\ call = [p \in Procs |-> NoCall]
  /\ ncalls = 0
  /\ returned = {}
  /\ parentScope = <<>>
  /\ cleanupLog = <<>>
  /\ initLog = <<>>
  /\ disposeReturned = {}
  /\ providers = <<>>
  /\ bootLog = <<>>

Unbound == [t \in Types |-> NoBinding]

\* The bindings of the scope tests: X and Y scoped and Disposable, X also
\* Initializable, Y built by a constructor and with a failing Dispose hook; T
\* transient; S a singleton.
ScopeBindings ==
  [Unbound EXCEPT
     !["X"] = Binding(LifetimeScoped, FALSE, <<>>, FALSE, TRUE, FALSE, TRUE, FALSE),
     !["Y"] = Binding(LifetimeScoped, TRUE, <<>>, FALSE, TRUE, TRUE, FALSE, FALSE),
     !["T"] = Plain(LifetimeTransient),
     !["S"] = Plain(LifetimeSingleton)]

Init == InitWith(ScopeBindings)

\* Scopes: creation, resolution and disposal, by concurrent goroutines.
Next ==
  \E p \in Procs :
    \/ CreateScope(p)
    \/ CreateChildScope(p)
    \/ CallScopeMake(p)
    \/ CallDispose(p)
    \/ ScopeMakeFast(p)
    \/ ScopeMakeLock(p)
    \/ ScopeMakeCreated(p)
    \/ ScopeMakeTransient(p)
    \/ ScopeMakeInit(p)
    \/ DisposeLock(p)
    \/ DisposeChildren(p)
    \/ DisposeChildReturned(p)
    \/ DisposeInstance(p)
    \/ DisposeFinish(p)
    \/ CtorInvoke(p)
    \/ MakeStart(p)
    \/ GetOrCreateFast(p)
    \/ GetOrCreateSlow(p)
    \/ OnceDo(p)
    \/ FactoryBody(p)
    \/ MakeSingletonResult(p)

Spec == Init /\ [][Next]_vars

\* The types requested of the container in SpecSingleton.
SingletonTypes == {"P", "S", "F"}

\* Singleton bindings: P instantiated with reflect.New, S built by a
\* constructor that takes the transient T, F built by a constructor that
\* returns an error.
SingletonBindings ==
  [Unbound EXCEPT
     !["P"] = Plain(LifetimeSingleton),
     !["S"] = Ctor(LifetimeSingleton, <<"T">>),
     !["F"] = Binding(LifetimeSingleton, TRUE, <<>>, TRUE, FALSE, FALSE, FALSE, FALSE),
     !["T"] = Plain(LifetimeTransient)]

InitSingleton == InitWith(SingletonBindings)

\* Concurrent Nasc.Make calls on singleton bindings.
NextSingleton ==
  \E p \in Procs :
    \/ \E t \in SingletonTypes : CallMake(p, t)
    \/ MakeStart(p)
    \/ GetOrCreateFast(p)
    \/ GetOrCreateSlow(p)
    \/ OnceDo(p)
    \/ FactoryBody(p)
    \/ FactoryCtorDone(p)
    \/ MakeSingletonResult(p)
    \/ CtorResolveParam(p)
    \/ CtorParamResolved(p)
    \/ CtorInvoke(p)

SpecSingleton == InitSingleton /\ [][NextSingleton]_vars

\* The types requested of the container in SpecSafe.
SafeTypes == {"A", "B", "C"}

\* The lifetimes of the constructor bindings resolved by MakeSafe: those of
\* BindConstructor and SingletonConstructor.
SafeLifetimes == {LifetimeTransient, LifetimeSingleton}

\* A depends on B and B on A.
Cycle2(la, lb) ==
  [Unbound EXCEPT !["A"] = Ctor(la, <<"B">>), !["B"] = Ctor(lb, <<"A">>)]

\* A depends on B, B on C and C on A.
Cycle3(la, lb, lc) ==
  [Unbound EXCEPT !["A"] = Ctor(la, <<"B">>), !["B"] = Ctor(lb, <<"C">>),
                  !["C"] = Ctor(lc, <<"A">>)]

\* No cycle: A depends on B and B on C.
Chain(la, lb) ==
  [Unbound EXCEPT !["A"] = Ctor(la, <<"B">>), !["B"] = Ctor(lb, <<"C">>),
                  !["C"] = Plain(LifetimeTransient)]

SafeRegistries ==
  {Cycle2(la, lb) : la \in SafeLifetimes, lb \in SafeLifetimes}
  \cup {Cycle3(la, lb, lc) : la \in SafeLifetimes, lb \in SafeLifetimes,
                               lc \in SafeLifetimes}
  \cup {Chain(la, lb) : la \in SafeLifetimes, lb \in SafeLifetimes}

InitSafe == \E bindings \in SafeRegistries : InitWith(bindings)

\* A step of a MakeSafe call in progress.
SafeStep(p) ==
  \/ SafeStart(p)
  \/ SafeReturn(p)
  \/ SafeCtorResolveParam(p)
  \/ SafeCtorParamResolved(p)
  \/ SafeCtorInvoke(p)
  \/ GetOrCreateFast(p)
  \/ GetOrCreateSlow(p)
  \/ OnceDo(p)
  \/ FactoryBody(p)
  \/ FactoryCtorDone(p)

\* Concurrent Nasc.MakeSafe calls on constructor bindings.
NextSafe ==
  \E p \in Procs :
    \/ \E t \in SafeTypes : CallMakeSafe(p, t)
    \/ SafeStep(p)

SpecSafe == InitSafe /\ [][NextSafe]_vars

\* X depends on A, A on B and B on A.
CycleWithTail(lx, la, lb) ==
  [Unbound EXCEPT !["X"] = Ctor(lx, <<"A">>), !["A"] = Ctor(la, <<"B">>),
                  !["B"] = Ctor(lb, <<"A">>)]

TailTypes == {"X", "A", "B"}

\* The same bindings without the cycle: the constructor of B takes nothing.
NoCycleWithTail ==
  [CycleWithTail(LifetimeTransient, LifetimeTransient, LifetimeTransient)
     EXCEPT !["B"] = Ctor(LifetimeTransient, <<>>)]

InitCyclePath ==
  \/ \E lx \in SafeLifetimes, la \in SafeLifetimes, lb \in SafeLifetimes :
       InitWith(CycleWithTail(lx, la, lb))
  \/ InitWith(NoCycleWithTail)

\* Concurrent Nasc.MakeSafe calls on a cycle and on a binding that leads to it.
NextCyclePath ==
  \E p \in Procs :
    \/ \E t \in TailTypes : CallMakeSafe(p, t)
    \/ SafeStep(p)

SpecCyclePath == InitCyclePath /\ [][NextCyclePath]_vars

\* A step of a Make or MakeAll call in progress (no transient constructor
\* binding is requested directly).
MakeStep(p) ==
  \/ MakeStart(p)
  \/ MakeSingletonResult(p)
  \/ MakeAllStart(p)
  \/ MakeAllSingletonResult(p)
  \/ MakeAllReturn(p)
  \/ RawFactoryCtorDone(p)
  \/ CtorResolveParam(p)
  \/ CtorParamResolved(p)
  \/ CtorInvoke(p)

\* Concurrent Make, MakeSafe and MakeAll calls on the singleton bindings: the
\* three callers of singletonCache.getOrCreate.
NextCache ==
  \E p \in Procs :
    \/ \E t \in SingletonTypes : CallMake(p, t)
    \/ \E t \in SingletonTypes : CallMakeSafe(p, t)
    \/ \E t \in SingletonTypes : CallMakeAll(p, t)
    \/ MakeStep(p)
    \/ SafeStep(p)

SpecCache == InitSingleton /\ [][NextCache]_vars

\* The singletons resolved through every entry point: S, built by a
\* constructor that takes the transient T, and F, whose constructor returns an
\* error.
EntryPointTypes == {"S", "F"}

EntryPointBindings ==
  [Unbound EXCEPT
     !["S"] = Ctor(LifetimeSingleton, <<"T">>),
     !["F"] = Binding(LifetimeSingleton, TRUE, <<>>, TRUE, FALSE, FALSE, FALSE, FALSE),
     !["T"] = Plain(LifetimeTransient)]

InitEntryPoints == InitWith(EntryPointBindings)

\* Concurrent Make, MakeSafe, MustMake and MakeAll calls on the singletons and
\* Scope.Make calls on the scopes of the container.
NextEntryPoints ==
  \E p \in Procs :
    \/ \E t \in EntryPointTypes : CallMake(p, t)
    \/ \E t \in EntryPointTypes : CallMakeSafe(p, t)
    \/ \E t \in EntryPointTypes : CallMustMake(p, t)
    \/ \E t \in EntryPointTypes : CallMakeAll(p, t)
    \/ CreateScope(p)
    \/ CallScopeMake(p)
    \/ ScopeMakeTransient(p)
    \/ ScopeMakeInit(p)
    \/ MustMakeReturn(p)
    \/ MakeStep(p)
    \/ SafeStep(p)

SpecEntryPoints == InitEntryPoints /\ [][NextEntryPoints]_vars

\* The singleton bindings whose construction fails: F's constructor returns
\* an error; M's constructor takes U, for which nothing is bound at first.
FailingTypes == {"F", "M"}

FailingBindings ==
  [Unbound EXCEPT
     !["F"] = Binding(LifetimeSingleton, TRUE, <<>>, TRUE, FALSE, FALSE, FALSE, FALSE),
     !["M"] = Ctor(LifetimeSingleton, <<"U">>)]

InitMemo == InitWith(FailingBindings)

\* Concurrent resolutions of the failing singletons through Make, MakeSafe,
\* MakeAll and Validate, with U bound at some point.
NextMemo ==
  \E p \in Procs :
    \/ \E t \in FailingTypes : CallMake(p, t)
    \/ \E t \in FailingTypes : CallMakeSafe(p, t)
    \/ \E t \in FailingTypes : CallMakeAll(p, t)
    \/ CallValidate(p)
    \/ CallRegister(p, "U", Plain(LifetimeTransient))
    \/ MakeStep(p)
    \/ SafeStep(p)
    \/ ValidateStep(p)

SpecMemo == InitMemo /\ [][NextMemo]_vars

\* The bindings that are never cached: T instantiated with reflect.New, K
\* built by a constructor that takes T, G produced by a factory function.
FreshTypes == {"T", "K", "G"}

FreshBindings ==
  [Unbound EXCEPT
     !["T"] = Plain(LifetimeTransient),
     !["K"] = Ctor(LifetimeTransient, <<"T">>),
     !["G"] = Plain(LifetimeFactory)]

InitFresh == InitWith(FreshBindings)

\* Concurrent Make, MakeSafe and MakeAll calls on transient and factory
\* bindings.
NextFresh ==
  \E p \in Procs :
    \/ \E t \in FreshTypes : CallMake(p, t)
    \/ \E t \in FreshTypes : CallMakeSafe(p, t)
    \/ \E t \in FreshTypes : CallMakeAll(p, t)
    \/ MakeStart(p)
    \/ MakeCtorDone(p)
    \/ MakeAllStart(p)
    \/ MakeAllCtorDone(p)
    \/ MakeAllReturn(p)
    \/ CtorResolveParam(p)
    \/ CtorParamResolved(p)
    \/ CtorInvoke(p)
    \/ SafeStart(p)
    \/ SafeReturn(p)
    \/ SafeCtorResolveParam(p)
    \/ SafeCtorParamResolved(p)
    \/ SafeCtorInvoke(p)

SpecFresh == InitFresh /\ [][NextFresh]_vars

\* The types and bindings registered in SpecRegistry.
RegistryTypes == {"A", "B"}

RegistryBindings == {Plain(LifetimeTransient), Plain(LifetimeSingleton)}

InitRegistry == InitWith(Unbound)

\* Registrations of unnamed and named bindings on an empty registry, and
\* resolutions by name.
NextRegistry ==
  \E p \in Procs :
    \/ \E t \in RegistryTypes, b \in RegistryBindings : CallRegister(p, t, b)
    \/ \E t \in RegistryTypes, n \in Names, c \in ConcreteTypes : CallBindNamed(p, t, n, c)
    \/ \E t \in RegistryTypes, n \in Names : CallMakeNamed(p, t, n)

SpecRegistry == InitRegistry /\ [][NextRegistry]_vars

\* The types of the acyclic part of the graphs of SpecDiamond.
AcyclicTypes == {"A", "B", "C", "T"}

\* Beside the acyclic part: a constructor that fails and a cycle of two
\* transient bindings, on which MakeSafe fails.
Broken(bindings) ==
  [bindings EXCEPT
     !["F"] = Binding(LifetimeSingleton, TRUE, <<>>, TRUE, FALSE, FALSE, FALSE, FALSE),
     !["X"] = Ctor(LifetimeTransient, <<"Y">>),
     !["Y"] = Ctor(LifetimeTransient, <<"X">>)]

\* A diamond: A depends on B and C, both of which depend on T.
Diamond(la, lb, lc, lt) ==
  Broken([Unbound EXCEPT !["A"] = Ctor(la, <<"B", "C">>), !["B"] = Ctor(lb, <<"T">>),
                         !["C"] = Ctor(lc, <<"T">>), !["T"] = Ctor(lt, <<>>)])

\* Two sibling parameters of A need the same dependency B.
Siblings(la, lb) ==
  Broken([Unbound EXCEPT !["A"] = Ctor(la, <<"B", "B">>), !["B"] = Ctor(lb, <<>>)])

DiamondRegistries ==
  {Diamond(la, lb, lc, lt) : la \in SafeLifetimes, lb \in SafeLifetimes,
                               lc \in SafeLifetimes, lt \in SafeLifetimes}
  \cup {Siblings(la, lb) : la \in SafeLifetimes, lb \in SafeLifetimes}

InitDiamond == \E bindings \in DiamondRegistries : InitWith(bindings)

\* Concurrent MakeSafe calls on the top of the acyclic part and on the broken
\* bindings.
NextDiamond ==
  \E p \in Procs :
    \/ \E t \in {"A", "F", "X"} : CallMakeSafe(p, t)
    \/ SafeStep(p)

SpecDiamond == InitDiamond /\ [][NextDiamond]_vars

\* The sound container of SpecValidate: T instantiated with reflect.New.
Sound == [Unbound EXCEPT !["T"] = Plain(LifetimeTransient)]

\* Three independently broken bindings beside T: K's constructor takes U,
\* which is not bound; X's constructor takes X, a cycle; the constructor of
\* the singleton F returns an error.
ThreeBroken(lx) ==
  [Sound EXCEPT
     !["K"] = Ctor(LifetimeTransient, <<"U">>),
     !["X"] = Ctor(lx, <<"X">>),
     !["F"] = Binding(LifetimeSingleton, TRUE, <<>>, TRUE, FALSE, FALSE, FALSE, FALSE)]

ValidateRegistries == {Sound} \cup {ThreeBroken(lx) : lx \in SafeLifetimes}

\* T has a named binding beside its unnamed one.
ValidateNamed == [NoNamed EXCEPT !["T"]["n1"] = NamedBinding("n1", "c2")]

InitValidate ==
  /\ registry \in ValidateRegistries
  /\ named = ValidateNamed
  /\ validation = [p \in Procs |-> NoValidation]
  /\ singletons = [k \in Types \cup {NamedKey} |-> NoCell]
  /\ scopes = <<>>
  /\ created = <<>>
  /\ stack = [p \in Procs |-> <<>>]
  /\ ctx = [p \in Procs |-> NewContext]
  /\ call = [p \in Procs |-> NoCall]
  /\ ncalls = 0
  /\ returned = {}
  /\ parentScope = <<>>
  /\ cleanupLog = <<>>
  /\ initLog = <<>>
  /\ disposeReturned = {}
  /\ providers = <<>>
  /\ bootLog = <<>>

\* Concurrent Validate calls, and MakeSafe calls on the singleton F.
NextValidate ==
  \E p \in Procs :
    \/ CallValidate(p)
    \/ CallMakeSafe(p, "F")
    \/ ValidateStep(p)
    \/ SafeStep(p)

SpecValidate == InitValidate /\ [][NextValidate]_vars

\* A sound container with a singleton: S built by a constructor that takes
\* the transient T.
CacheBindings ==
  [Unbound EXCEPT !["S"] = Ctor(LifetimeSingleton, <<"T">>),
                  !["T"] = Plain(LifetimeTransient)]

InitValidateCache == InitWith(CacheBindings)

\* Validate calls beside Make and MakeSafe calls on the singleton S.
NextValidateCache ==
  \E p \in Procs :
    \/ CallValidate(p)
    \/ CallMake(p, "S")
    \/ CallMakeSafe(p, "S")
    \/ ValidateStep(p)
    \/ SafeStep(p)
    \/ MakeStart(p)
    \/ MakeSingletonResult(p)
    \/ CtorResolveParam(p)
    \/ CtorParamResolved(p)
    \/ CtorInvoke(p)

SpecValidateCache == InitValidateCache /\ [][NextValidateCache]_vars

\* The scoped bindings requested of the container: X of Scoped, Y of
\* ScopedConstructor.  The transient K takes X as a constructor parameter and T
\* is a plain transient binding.
ScopedTypes == {"X", "Y"}

ScopedEntryBindings ==
  [Unbound EXCEPT
     !["X"] = Plain(LifetimeScoped),
     !["Y"] = Ctor(LifetimeScoped, <<"T">>),
     !["K"] = Ctor(LifetimeTransient, <<"X">>),
     !["T"] = Plain(LifetimeTransient)]

\* X also has a named binding, which is transient as every named binding is.
ScopedEntryNamed == [NoNamed EXCEPT !["X"]["n1"] = NamedBinding("n1", "c1")]

InitScopedEntry ==
  /\ registry = ScopedEntryBindings
  /\ named \in {NoNamed, ScopedEntryNamed}
  /\ validation = [p \in Procs |-> NoValidation]
  /\ singletons = [k \in Types \cup {NamedKey} |-> NoCell]
  /\ scopes = <<>>
  /\ created = <<>>
  /\ stack = [p \in Procs |-> <<>>]
  /\ ctx = [p \in Procs |-> NewContext]
  /\ call = [p \in Procs |-> NoCall]
  /\ ncalls = 0
  /\ returned = {}
  /\ parentScope = <<>>
  /\ cleanupLog = <<>>
  /\ initLog = <<>>
  /\ disposeReturned = {}
  /\ providers = <<>>
  /\ bootLog = <<>>

\* The entry points of the container called on the scoped bindings and on K.
NextScopedEntry ==
  \E p \in Procs :
    \/ \E t \in ScopedTypes \cup {"K"} : CallMake(p, t)
    \/ \E t \in ScopedTypes \cup {"K"} : CallMakeSafe(p, t)
    \/ \E t \in ScopedTypes \cup {"K"} : CallMustMake(p, t)
    \/ \E t \in ScopedTypes \cup {"K"} : CallMakeAll(p, t)
    \/ \E t \in ScopedTypes, n \in Names : CallMakeNamed(p, t, n)
    \/ MustMakeReturn(p)
    \/ MakeStart(p)
    \/ MakeCtorDone(p)
    \/ MakeAllStart(p)
    \/ MakeAllCtorDone(p)
    \/ CtorResolveParam(p)
    \/ CtorParamResolved(p)
    \/ SafeStart(p)
    \/ SafeReturn(p)
    \/ SafeCtorResolveParam(p)
    \/ SafeCtorParamResolved(p)

SpecScopedEntry == InitScopedEntry /\ [][NextScopedEntry]_vars

\* The constructors bound in SpecBindConstructor: one that takes the
\* interface T and one that takes the concrete type D.
BoundConstructors == {ConstructorArg(TRUE, <<"T">>), ConstructorArg(TRUE, <<"D">>)}

InitBindConstructor == InitWith(Sound)

\* Constructor bindings for K registered with every lifetime, and K resolved
\* through Make and MakeSafe.
NextBindConstructor ==
  \E p \in Procs :
    \/ \E c \in BoundConstructors,
          l \in {LifetimeTransient, LifetimeSingleton, LifetimeScoped} :
            CallBindConstructor(p, "K", c, l)
    \/ CallMake(p, "K")
    \/ CallMakeSafe(p, "K")
    \/ MakeStart(p)
    \/ MakeCtorDone(p)
    \/ MakeSingletonResult(p)
    \/ CtorResolveParam(p)
    \/ CtorParamResolved(p)
    \/ CtorInvoke(p)
    \/ SafeStep(p)

SpecBindConstructor == InitBindConstructor /\ [][NextBindConstructor]_vars

\* The types requested through MakeSafe: bound with every lifetime, unbound
\* (U), and constructor bindings (K transient, S singleton) whose parameter N
\* is bound to a struct that does not implement it.
FailureTypes == {NilType, "N", "T", "G", "K", "S", "F", "U", "X"}

FailureBindings ==
  [Unbound EXCEPT
     !["N"] = Plain(LifetimeTransient),
     !["T"] = Plain(LifetimeTransient),
     !["G"] = Ctor(LifetimeTransient, <<"T">>),
     !["K"] = Ctor(LifetimeTransient, <<"N">>),
     !["S"] = Ctor(LifetimeSingleton, <<"N">>),
     !["F"] = Binding(LifetimeFactory, FALSE, <<>>, TRUE, FALSE, FALSE, FALSE, FALSE),
     !["X"] = Plain(LifetimeScoped)]

InitFailure == InitWith(FailureBindings)

\* Concurrent Nasc.MakeSafe calls on bindings that fail in every way.
NextFailure ==
  \E p \in Procs :
    \/ \E t \in FailureTypes : CallMakeSafe(p, t)
    \/ SafeStep(p)

SpecFailure == InitFailure /\ [][NextFailure]_vars

\* The arguments of the registration functions: valid ones, and every invalid
\* one (nil type, nil and non-struct concrete value, empty name, empty tag
\* list, constructor that does not parse).
BoundTypes == {NilType, "T", "U"}

BoundConcretes == ConcreteTypes \cup InvalidConcretes

BoundTagLists == {<<>>, <<"g1">>}

InitRegistration == InitWith(Sound)

\* Concurrent registrations with valid and invalid arguments.
NextRegistration ==
  \E p \in Procs : \E t \in BoundTypes :
    \/ \E c \in BoundConcretes, l \in {LifetimeTransient, LifetimeSingleton, LifetimeScoped} :
          CallBind(p, t, c, l)
    \/ \E c \in BoundConcretes, n \in Names \cup {""} : CallBindNamed(p, t, n, c)
    \/ \E c \in BoundConcretes, tags \in BoundTagLists : CallBindWithTags(p, t, c, tags)
    \/ \E c \in {ConstructorArg(TRUE, <<"T">>), ConstructorArg(FALSE, <<>>)} :
          CallBindConstructor(p, t, c, LifetimeTransient)

SpecRegistration == InitRegistration /\ [][NextRegistration]_vars

\* Bindings that resolve (T, and G whose constructor takes T) and bindings
\* whose resolution fails: U is not bound, X is scoped, the factory of F and
\* the constructor of K return an error, the constructor of the singleton M
\* takes U.
ResolvableTypes == {"T", "G"}

FailedTypes == {NilType, "U", "X", "F", "K", "M"}

PanicBindings ==
  [Unbound EXCEPT
     !["T"] = Plain(LifetimeTransient),
     !["G"] = Ctor(LifetimeTransient, <<"T">>),
     !["X"] = Plain(LifetimeScoped),
     !["F"] = Binding(LifetimeFactory, FALSE, <<>>, TRUE, FALSE, FALSE, FALSE, FALSE),
     !["K"] = Binding(LifetimeTransient, TRUE, <<>>, TRUE, FALSE, FALSE, FALSE, FALSE),
     !["M"] = Ctor(LifetimeSingleton, <<"U">>)]

InitPanic == InitWith(PanicBindings)

\* Concurrent Make, MustMake, MakeSafe and MakeAll calls on them.
NextPanic ==
  \E p \in Procs :
    \/ \E t \in ResolvableTypes \cup FailedTypes : CallMake(p, t)
    \/ \E t \in ResolvableTypes \cup FailedTypes : CallMustMake(p, t)
    \/ \E t \in ResolvableTypes \cup FailedTypes : CallMakeSafe(p, t)
    \/ \E t \in {"K", "M"} : CallMakeAll(p, t)
    \/ MakeStep(p) \/ MakeCtorDone(p) \/ MakeAllCtorDone(p)
    \/ SafeStep(p)
    \/ MustMakeReturn(p)

SpecPanic == InitPanic /\ [][NextPanic]_vars

\* The types looked up by name: each starts with no binding and may get an
\* unnamed and named ones.
LookupTypes == {"T", "U"}

InitLookup == InitWith(Unbound)

\* Concurrent Bind, BindNamed and Registry.GetNamed calls.
NextLookup ==
  \E p \in Procs : \E t \in LookupTypes :
    \/ CallBind(p, t, "c1", LifetimeTransient)
    \/ \E n \in Names, c \in ConcreteTypes : CallBindNamed(p, t, n, c)
    \/ \E n \in Names : CallGetNamed(p, t, n)

SpecLookup == InitLookup /\ [][NextLookup]_vars

InitAppendOnly == InitWith(Unbound)

\* Registrations of every kind, valid, duplicate and invalid, and lookups, in
\* any order from two goroutines.
NextAppendOnly ==
  \E p \in Procs : \E t \in LookupTypes :
    \/ \E c \in BoundConcretes, l \in {LifetimeTransient, LifetimeSingleton} :
          CallBind(p, t, c, l)
    \/ \E c \in BoundConcretes, n \in Names \cup {""} : CallBindNamed(p, t, n, c)
    \/ \E n \in Names, c \in ConcreteTypes : CallRegisterNamed(p, t, NamedSingleton(n, c))
    \/ CallGet(p, t)
    \/ \E n \in Names : CallGetNamed(p, t, n)

SpecAppendOnly == InitAppendOnly /\ [][NextAppendOnly]_vars

InitProviders == InitWith(Unbound)

\* A sequence of RegisterProvider and BootProviders calls (each call is made
\* after the one before it has returned).
NextProviders ==
  \E p \in Procs :
    \/ \E t \in ProviderTypes \cup {NilType}, shouldRegister \in BOOLEAN, registerFails \in BOOLEAN :
          CallRegisterProvider(p, t, shouldRegister, registerFails)
    \/ \E fail \in 0..Cardinality(ProviderTypes) : CallBootProviders(p, fail)

SpecProviders == InitProviders /\ [][NextProviders]_vars

\* Scoped bindings whose construction fails: the constructor of Y returns an
\* error, the constructor of S takes U, which is not bound, and the
\* constructor of T takes the scoped X; X itself is built without constructor.
FailingScopedBindings ==
  [Unbound EXCEPT
     !["X"] = Binding(LifetimeScoped, FALSE, <<>>, FALSE, TRUE, FALSE, TRUE, FALSE),
     !["Y"] = Binding(LifetimeScoped, TRUE, <<>>, TRUE, FALSE, FALSE, FALSE, FALSE),
     !["S"] = Ctor(LifetimeScoped, <<"U">>),
     !["T"] = Ctor(LifetimeScoped, <<"X">>)]

InitScopeFailure == InitWith(FailingScopedBindings)

\* Scopes whose scoped constructions fail: creation, resolution and disposal
\* by concurrent goroutines.
NextScopeFailure ==
  \E p \in Procs :
    \/ CreateScope(p)
    \/ CreateChildScope(p)
    \/ CallScopeMake(p)
    \/ CallDispose(p)
    \/ ScopeMakeFast(p)
    \/ ScopeMakeLock(p)
    \/ ScopeMakeCreated(p)
    \/ ScopeMakeInit(p)
    \/ DisposeLock(p)
    \/ DisposeChildren(p)
    \/ DisposeChildReturned(p)
    \/ DisposeInstance(p)
    \/ DisposeFinish(p)
    \/ CtorResolveParam(p)
    \/ CtorParamResolved(p)
    \/ CtorInvoke(p)
    \/ MakeStart(p)

SpecScopeFailure == InitScopeFailure /\ [][NextScopeFailure]_vars

\* Scoped bindings with hooks: the Initialize hook of X fails, that of Y
\* succeeds; both have a Dispose hook.
InitFailureBindings ==
  [Unbound EXCEPT
     !["X"] = Binding(LifetimeScoped, FALSE, <<>>, FALSE, TRUE, FALSE, TRUE, TRUE),
     !["Y"] = Binding(LifetimeScoped, FALSE, <<>>, FALSE, TRUE, FALSE, TRUE, FALSE)]

InitInitFailure == InitWith(InitFailureBindings)

\* Scopes on which Scope.Make and Dispose are called by concurrent goroutines.
NextInitFailure ==
  \E p \in Procs :
    \/ CreateScope(p)
    \/ CallScopeMake(p)
    \/ CallDispose(p)
    \/ ScopeMakeFast(p)
    \/ ScopeMakeLock(p)
    \/ ScopeMakeInit(p)
    \/ DisposeLock(p)
    \/ DisposeChildren(p)
    \/ DisposeInstance(p)
    \/ DisposeFinish(p)

SpecInitFailure == InitInitFailure /\ [][NextInitFailure]_vars

\* One binding of each lifetime, each to a struct with a Dispose hook: X
\* scoped, T transient, S a singleton and Y produced by a factory.
DisposableBindings ==
  [Unbound EXCEPT
     !["X"] = Binding(LifetimeScoped, FALSE, <<>>, FALSE, TRUE, FALSE, FALSE, FALSE),
     !["T"] = Binding(LifetimeTransient, FALSE, <<>>, FALSE, TRUE, FALSE, FALSE, FALSE),
     !["S"] = Binding(LifetimeSingleton, FALSE, <<>>, FALSE, TRUE, FALSE, FALSE, FALSE),
     !["Y"] = Binding(LifetimeFactory, FALSE, <<>>, FALSE, TRUE, FALSE, FALSE, FALSE)]

InitOwnInstances == InitWith(DisposableBindings)

\* Scopes and child scopes on which bindings of every lifetime are resolved,
\* and their disposal.
NextOwnInstances ==
  \E p \in Procs :
    \/ CreateScope(p)
    \/ CreateChildScope(p)
    \/ CallScopeMake(p)
    \/ CallDispose(p)
    \/ ScopeMakeFast(p)
    \/ ScopeMakeLock(p)
    \/ ScopeMakeTransient(p)
    \/ ScopeMakeInit(p)
    \/ DisposeLock(p)
    \/ DisposeChildren(p)
    \/ DisposeChildReturned(p)
    \/ DisposeInstance(p)
    \/ DisposeFinish(p)
    \/ MakeStart(p)
    \/ GetOrCreateFast(p)
    \/ GetOrCreateSlow(p)
    \/ OnceDo(p)
    \/ FactoryBody(p)
    \/ MakeSingletonResult(p)

SpecOwnInstances == InitOwnInstances /\ [][NextOwnInstances]_vars

\* The scoped X with a Dispose hook that returns an error.
ChildScopeBindings ==
  [Unbound EXCEPT
     !["X"] = Binding(LifetimeScoped, FALSE, <<>>, FALSE, TRUE, TRUE, FALSE, FALSE)]

InitChildScopes == InitWith(ChildScopeBindings)

\* Scopes, child scopes and grandchild scopes created and disposed by two
\* goroutines, with scoped instances in them.
NextChildScopes ==
  \E p \in Procs :
    \/ CreateScope(p)
    \/ CreateChildScope(p)
    \/ CallScopeMake(p)
    \/ CallDispose(p)
    \/ ScopeMakeFast(p)
    \/ ScopeMakeLock(p)
    \/ ScopeMakeInit(p)
    \/ DisposeLock(p)
    \/ DisposeChildren(p)
    \/ DisposeChildReturned(p)
    \/ DisposeInstance(p)
    \/ DisposeFinish(p)

SpecChildScopes == InitChildScopes /\ [][NextChildScopes]_vars

\* The bindings whose constructor takes the scoped X: T is transient, Y scoped
\* and S a singleton.
ScopedParamTypes == {"T", "Y", "S"}

\* X is scoped and built without constructor; the constructor of A takes the
\* transient B.
ScopedParamBindings ==
  [Unbound EXCEPT
     !["X"] = Plain(LifetimeScoped),
     !["T"] = Ctor(LifetimeTransient, <<"X">>),
     !["Y"] = Ctor(LifetimeScoped, <<"X">>),
     !["S"] = Ctor(LifetimeSingleton, <<"X">>),
     !["A"] = Ctor(LifetimeTransient, <<"B">>),
     !["B"] = Plain(LifetimeTransient)]

InitScopedParam == InitWith(ScopedParamBindings)

\* Scope.Make on X and on the bindings that take it, Make and MakeSafe on
\* those bindings and on A.
NextScopedParam ==
  \E p \in Procs :
    \/ CreateScope(p)
    \/ CallScopeMake(p)
    \/ \E t \in ScopedParamTypes \cup {"A"} : CallMake(p, t)
    \/ \E t \in ScopedParamTypes \cup {"A"} : CallMakeSafe(p, t)
    \/ ScopeMakeFast(p)
    \/ ScopeMakeLock(p)
    \/ ScopeMakeCreated(p)
    \/ ScopeMakeTransient(p)
    \/ ScopeMakeInit(p)
    \/ MakeStart(p)
    \/ MakeCtorDone(p)
    \/ GetOrCreateFast(p)
    \/ GetOrCreateSlow(p)
    \/ OnceDo(p)
    \/ FactoryBody(p)
    \/ FactoryCtorDone(p)
    \/ MakeSingletonResult(p)
    \/ CtorResolveParam(p)
    \/ CtorParamResolved(p)
    \/ CtorInvoke(p)
    \/ SafeStep(p)

SpecScopedParam == InitScopedParam /\ [][NextScopedParam]_vars

\* Containers with the scoped binding X: beside it the transient T, whose
\* constructor takes X, or the transient A, whose constructor takes nothing.
ScopedRegistries ==
  {[Unbound EXCEPT !["X"] = Plain(LifetimeScoped),
                   !["T"] = Ctor(LifetimeTransient, <<"X">>)],
   [Unbound EXCEPT !["X"] = Plain(LifetimeScoped),
                   !["A"] = Ctor(LifetimeTransient, <<>>)]}

InitValidateScoped == \E bindings \in ScopedRegistries : InitWith(bindings)

\* Validate on a container with a scoped binding, beside Scope.Make calls.
NextValidateScoped ==
  \E p \in Procs :
    \/ CallValidate(p)
    \/ ValidateStep(p)
    \/ SafeStart(p)
    \/ SafeReturn(p)
    \/ SafeCtorResolveParam(p)
    \/ SafeCtorParamResolved(p)
    \/ SafeCtorInvoke(p)
    \/ CreateScope(p)
    \/ CallScopeMake(p)
    \/ ScopeMakeFast(p)
    \/ ScopeMakeLock(p)
    \/ ScopeMakeTransient(p)
    \/ ScopeMakeInit(p)
    \/ MakeStart(p)
    \/ CtorResolveParam(p)
    \/ CtorParamResolved(p)

SpecValidateScoped == InitValidateScoped /\ [][NextValidateScoped]_vars

\* The types that get named singleton bindings.
NamedSingletonTypes == {"T", "U"}

\* T has the singleton binding n1 from the start.
InitNamedSingleton ==
  /\ registry = Unbound
  /\ named = [NoNamed EXCEPT !["T"]["n1"] = NamedSingleton("n1", "c1")]
  /\ validation = [p \in Procs |-> NoValidation]
  /\ singletons = [k \in Types \cup {NamedKey} |-> NoCell]
  /\ scopes = <<>>
  /\ created = <<>>
  /\ stack = [p \in Procs |-> <<>>]
  /\ ctx = [p \in Procs |-> NewContext]
  /\ call = [p \in Procs |-> NoCall]
  /\ ncalls = 0
  /\ returned = {}
  /\ parentScope = <<>>
  /\ cleanupLog = <<>>
  /\ initLog = <<>>
  /\ disposeReturned = {}
  /\ providers = <<>>
  /\ bootLog = <<>>

\* Named bindings with the singleton and the transient lifetime stored in the
\* registry, and resolved by name.
NextNamedSingleton ==
  \E p \in Procs : \E t \in NamedSingletonTypes, n \in Names :
    \/ \E c \in ConcreteTypes : CallRegisterNamed(p, t, NamedSingleton(n, c))
    \/ \E c \in ConcreteTypes : CallBindNamed(p, t, n, c)
    \/ CallMakeNamed(p, t, n)

SpecNamedSingleton == InitNamedSingleton /\ [][NextNamedSingleton]_vars

\* X is bound with BindAutoWire; its tagged field has the type T, which is
\* bound.
InitAutoWire == InitWith(Sound)

\* X bound with BindAutoWire and resolved through every entry point.
NextAutoWire ==
  \E p \in Procs :
    \/ \E c \in BoundConcretes : CallBindAutoWire(p, "X", c)
    \/ CallMake(p, "X")
    \/ CallMakeSafe(p, "X")
    \/ CallMustMake(p, "X")
    \/ CallMakeAll(p, "X")
    \/ CreateScope(p)
    \/ CallScopeMake(p)
    \/ MakeStart(p)
    \/ SafeStart(p)
    \/ MustMakeReturn(p)
    \/ MakeAllStart(p)
    \/ AutoWireDone(p)
    \/ MakeAllReturn(p)
    \/ ScopeMakeTransient(p)
    \/ ScopeMakeInit(p)

SpecAutoWire == InitAutoWire /\ [][NextAutoWire]_vars

\* X is bound with BindAutoWire and its tagged field has the type T, a
\* singleton whose constructor takes B: B's constructor takes T (a cycle), or
\* B has no constructor.
AutoWireCycle ==
  [Unbound EXCEPT !["X"] = AutoWireBinding,
                  !["T"] = Ctor(LifetimeSingleton, <<"B">>),
                  !["B"] = Ctor(LifetimeSingleton, <<"T">>)]

AutoWireRegistries == {AutoWireCycle, [AutoWireCycle EXCEPT !["B"] = Plain(LifetimeSingleton)]}

InitAutoWireCycle == \E bindings \in AutoWireRegistries : InitWith(bindings)

\* X resolved through MakeAll, which auto-wires it; B resolved on its own.
NextAutoWireCycle ==
  \E p \in Procs :
    \/ CallMakeAll(p, "X")
    \/ CallMake(p, "B")
    \/ MakeAllStart(p)
    \/ AutoWireDone(p)
    \/ MakeAllReturn(p)
    \/ MakeStart(p)
    \/ GetOrCreateFast(p)
    \/ GetOrCreateSlow(p)
    \/ OnceDo(p)
    \/ FactoryBody(p)
    \/ FactoryCtorDone(p)
    \/ MakeSingletonResult(p)
    \/ CtorResolveParam(p)
    \/ CtorParamResolved(p)
    \/ CtorInvoke(p)

SpecAutoWireCycle == InitAutoWireCycle /\ [][NextAutoWireCycle]_vars

\* ------------------------------------------------------------- properties

\* The constructions executed for type t on behalf of scope s (0: the
\* container), failed ones included.
Constructions(t, s) ==
  {i \in DOMAIN created : created[i].type = t /\ created[i].scope = s}

\* C1: however the concurrent first Make calls on a singleton binding
\* interleave, the binding's construction executes at most once, exactly once
\* as soon as a caller has returned, and every caller that is handed an
\* instance is handed the one that construction built and the cache holds.
C1_SingletonConstructedOnce ==
  \A t \in SingletonTypes :
    /\ Cardinality(Constructions(t, 0)) <= 1
    /\ \A r \in returned :
         (r.op = "Make" /\ r.type = t) =>
           /\ Cardinality(Constructions(t, 0)) = 1
           /\ r.ok => (r.val \in Constructions(t, 0) /\ r.val = singletons[t].value)
    /\ \A p \in Procs :
         (~Idle(p) /\ call[p].type = t /\ Top(p).kind = "Make"
            /\ Len(stack[p]) = 1 /\ Top(p).phase = "result") =>
           Cardinality(Constructions(t, 0)) = 1

\* Every goroutine is in a Make call on the constructor singleton S, none has
\* returned yet, and each is about to be handed the outcome of the one
\* construction.
C1_Witness ==
  /\ returned = {}
  /\ Cardinality(Constructions("S", 0)) = 1
  /\ singletons["S"].value # 0
  /\ \A p \in Procs :
       /\ ~Idle(p)
       /\ call[p].op = "Make" /\ call[p].type = "S"
       /\ Len(stack[p]) = 1 /\ Top(p).phase = "result"

\* C2: whatever the interleaving of Scope.Make and Scope.Dispose, a scope that
\* is marked disposed has an empty instance cache and an empty creation log.
C2_DisposedScopeIsEmpty ==
  \A s \in ScopeIds :
    scopes[s].disposed =>
      /\ \A t \in Types : scopes[s].instances[t] = 0
      /\ scopes[s].creationOrder = <<>>

\* C5: for a scoped binding, two Make calls that returned an instance returned
\* the same instance exactly when they were made on the same scope: one
\* instance per scope, distinct between siblings and between child and parent.
C5_OneInstancePerScope ==
  \A r1, r2 \in returned :
    (/\ r1.op = "ScopeMake" /\ r2.op = "ScopeMake"
     /\ r1.ok /\ r2.ok
     /\ r1.type = r2.type
     /\ registry[r1.type].Lifetime = LifetimeScoped) =>
      (r1.scope = r2.scope <=> r1.val = r2.val)

\* The entries of a scope's creation log that are instances of type t.
Logged(sc, t) ==
  {k \in DOMAIN sc.creationOrder : created[sc.creationOrder[k]].type = t}

\* C6: for a scoped binding and a scope, however the Make calls interleave,
\* the instance is constructed at most once, the creation log holds at most
\* one instance of the binding, exactly one while the cache holds it, and
\* every caller that is handed an instance is handed the constructed one.
C6_ScopedConstructedOnce ==
  \A s \in ScopeIds :
    \A t \in {u \in Types : registry[u].Lifetime = LifetimeScoped} :
      /\ Cardinality(Constructions(t, s)) <= 1
      /\ Cardinality(Logged(scopes[s], t)) <= 1
      /\ scopes[s].instances[t] # 0 => Cardinality(Logged(scopes[s], t)) = 1
      /\ \A r1, r2 \in returned :
           (/\ r1.op = "ScopeMake" /\ r2.op = "ScopeMake"
            /\ r1.ok /\ r2.ok
            /\ r1.type = t /\ r2.type = t
            /\ r1.scope = s /\ r2.scope = s) => r1.val = r2.val

\* The instances of scope s whose Dispose hook ran, in the order of the calls.
ScopeCleanups(s) == SelectSeq(cleanupLog, LAMBDA x : created[x].scope = s)

\* Whether instance x has a Dispose hook.
HasHook(x) == registry[created[x].type].disposable

Reverse(seq) == [k \in 1..Len(seq) |-> seq[Len(seq) + 1 - k]]

\* A Dispose call of goroutine p is in its loop over the scope's own instances.
InOwnInstances(p) ==
  ~Idle(p) /\ Top(p).kind = "Dispose" /\ Top(p).phase = "instances"

\* C7: while Dispose walks a scope's own instances, the hooks it has invoked
\* so far are those of the last instances of the creation log, last created
\* first; and in the record of all hook calls the instances of one scope
\* appear in exact reverse order of creation.
C7_ReverseCreationOrder ==
  /\ \A p \in Procs :
       InOwnInstances(p) =>
         LET log == scopes[Top(p).scope].creationOrder
         IN ScopeCleanups(Top(p).scope)
              = SelectSeq(SubSeq(Reverse(log), 1, Top(p).i - 1), HasHook)
  /\ \A s \in ScopeIds :
       \A j, k \in DOMAIN scopes[s].creationOrder :
         j < k => scopes[s].creationOrder[j] < scopes[s].creationOrder[k]
  /\ \A j, k \in DOMAIN cleanupLog :
       (j < k /\ created[cleanupLog[j]].scope = created[cleanupLog[k]].scope) =>
         cleanupLog[j] > cleanupLog[k]

\* A disposed scope of which two instances were cleaned up.
C7_Witness ==
  \E s \in ScopeIds :
    /\ scopes[s].disposed
    /\ s \in disposeReturned
    /\ Len(ScopeCleanups(s)) >= 2

\* C8: a Dispose call made on a scope on which a Dispose call has already
\* returned returns no error, whatever the first one returned; and over all
\* Dispose calls no instance's hook is invoked twice.
C8_DisposeIdempotent ==
  /\ \A r \in returned : (r.op = "Dispose" /\ r.after) => r.ok
  /\ \A j, k \in DOMAIN cleanupLog : j # k => cleanupLog[j] # cleanupLog[k]

\* A first Dispose returned an error and a second Dispose on the same scope
\* has returned.
C8_Witness ==
  \E r1, r2 \in returned :
    /\ r1.op = "Dispose" /\ ~r1.after /\ ~r1.ok
    /\ r2.op = "Dispose" /\ r2.after /\ r2.scope = r1.scope
    /\ cleanupLog # <<>>

\* C9: a Make call, for a binding of any lifetime, or a CreateChildScope call
\* made on a scope on which Dispose has returned panics and returns nothing.
C9_DisposedScopeRefuses ==
  \A r \in returned :
    (r.op \in {"ScopeMake", "CreateChildScope"} /\ r.after) =>
      (~r.ok /\ r.err.kind = "panic")

\* On a scope on which Dispose had returned, a Make call for the singleton
\* binding and a CreateChildScope call have panicked.
C9_Witness ==
  \E r1, r2 \in returned :
    /\ r1.op = "ScopeMake" /\ r1.after /\ r1.type = "S" /\ ~r1.ok
    /\ r2.op = "CreateChildScope" /\ r2.after /\ r2.scope = r1.scope /\ ~r2.ok

\* Whether scope d was created, directly or through other scopes, from scope s.
RECURSIVE IsDescendant(_, _)
IsDescendant(d, s) ==
  /\ d # 0
  /\ parentScope[d] # 0
  /\ (parentScope[d] = s \/ IsDescendant(parentScope[d], s))

\* C10: when Dispose reaches a scope's own instances, every scope created
\* from it, directly or recursively, is disposed; and in the record of all
\* hook calls an instance of such a scope comes before any instance of the
\* scope itself.
C10_ChildrenFirst ==
  /\ \A p \in Procs :
       InOwnInstances(p) =>
         \A d \in ScopeIds : IsDescendant(d, Top(p).scope) => scopes[d].disposed
  /\ \A j, k \in DOMAIN cleanupLog :
       IsDescendant(created[cleanupLog[j]].scope, created[cleanupLog[k]].scope)
         => j < k

\* After one Make call on a child, one on its parent and a single Dispose
\* call, on the parent, the child's instance was cleaned up and then the
\* parent's.
C10_Witness ==
  \E j, k \in DOMAIN cleanupLog :
    /\ j < k
    /\ IsDescendant(created[cleanupLog[j]].scope, created[cleanupLog[k]].scope)
    /\ created[cleanupLog[k]].scope \in disposeReturned
    /\ ncalls = 3
    /\ \E r1, r2 \in returned :
         /\ r1.op = "ScopeMake" /\ r1.ok /\ r1.val = cleanupLog[j]
         /\ r2.op = "ScopeMake" /\ r2.ok /\ r2.val = cleanupLog[k]

\* The binding graphs with the cycle A -> B -> A and with the cycle
\* A -> B -> C -> A.
IsCycle2 == \E la, lb \in SafeLifetimes : registry = Cycle2(la, lb)

IsCycle3 == \E la, lb, lc \in SafeLifetimes : registry = Cycle3(la, lb, lc)

\* The MakeSafe(A) calls that have returned.
ReturnedSafeA == {r \in returned : r.op = "MakeSafe" /\ r.type = "A"}

IsCycleError(r) == ~r.ok /\ r.err.kind = "cycle"

\* C3 as stated, for constructor bindings of either lifetime: on the cycle
\* A -> B -> A MakeSafe(A) fails with a cycle error whose path has 3 entries
\* and the same first and last key; on A -> B -> C -> A it fails with the
\* path [A, B, C, A].
C3_CyclePathAsStated ==
  \A r \in ReturnedSafeA :
    /\ IsCycle2 =>
         (IsCycleError(r) /\ Len(r.err.path) = 3 /\ r.err.path[1] = r.err.path[3])
    /\ IsCycle3 =>
         (IsCycleError(r) /\ r.err.path = <<"A", "B", "C", "A">>)

\* C3, amended: the path on A -> B -> C -> A is [A, B, C, A] when the three
\* constructor bindings are transient; when one of them is a singleton it is
\* one trip around the cycle that ends on the key it starts with, from
\* whichever key the call that ran the singleton's construction started.
C3_CyclePath ==
  \A r \in ReturnedSafeA :
    /\ IsCycle2 =>
         (IsCycleError(r) /\ Len(r.err.path) = 3 /\ r.err.path[1] = r.err.path[3])
    /\ IsCycle3 =>
         /\ IsCycleError(r)
         /\ r.err.path \in {<<"A", "B", "C", "A">>, <<"B", "C", "A", "B">>,
                             <<"C", "A", "B", "C">>}
         /\ registry = Cycle3(LifetimeTransient, LifetimeTransient, LifetimeTransient)
              => r.err.path = <<"A", "B", "C", "A">>

\* MakeSafe(A) has returned the cycle error with the path [A, B, C, A] on
\* three transient constructor bindings.
C3_Witness ==
  /\ registry = Cycle3(LifetimeTransient, LifetimeTransient, LifetimeTransient)
  /\ \E r \in ReturnedSafeA :
       IsCycleError(r) /\ r.err.path = <<"A", "B", "C", "A">>

\* C4: a MakeSafe call in progress can always go on: as long as some call has
\* not returned, some step of a call in progress is possible.
C4_MakeSafeGoesOn ==
  (\A p \in Procs : Idle(p)) \/ ENABLED (\E p \in Procs : SafeStep(p))

\* The hooks of scope s that failed, and the children of s whose disposal,
\* called from the Dispose of s, returned an error.
FailedHooks(s) ==
  {j \in DOMAIN cleanupLog :
     created[cleanupLog[j]].scope = s /\ registry[created[cleanupLog[j]].type].disposeFails}

FailedChildren(s) ==
  {d \in ScopeIds :
     /\ parentScope[d] = s
     /\ \E r \in returned :
          r.op = "Dispose" /\ r.scope = d /\ r.type = "child" /\ ~r.ok}

\* Whether the scope's cache and creation log are empty.
IsEmptyScope(sc) ==
  (\A t \in Types : sc.instances[t] = 0) /\ sc.creationOrder = <<>>

\* C11: when the Dispose that disposes a scope is through its two loops, every
\* child is disposed, the hook of every own instance that has one was invoked,
\* and it has collected one error per failed hook and per failed child
\* disposal; at the step on which a Dispose returns the scope is disposed
\* with empty cache and log; and a Dispose of the scope has returned an error
\* exactly when at least one hook or child disposal failed.
C11_DisposeGoesOnAfterFailure ==
  /\ [](\A p \in Procs :
         (InOwnInstances(p)
            /\ Top(p).i > Len(scopes[Top(p).scope].creationOrder)) =>
           LET s == Top(p).scope
               log == scopes[s].creationOrder
           IN /\ \A d \in ScopeIds : parentScope[d] = s => scopes[d].disposed
              /\ \A k \in DOMAIN log :
                   HasHook(log[k]) => \E j \in DOMAIN cleanupLog : cleanupLog[j] = log[k]
              /\ Top(p).errs = Cardinality(FailedHooks(s)) + Cardinality(FailedChildren(s)))
  /\ [](\A s \in ScopeIds :
         scopes[s].disposed =>
           ((\E r \in returned : r.op = "Dispose" /\ r.scope = s /\ ~r.ok)
              <=> (FailedHooks(s) # {} \/ FailedChildren(s) # {})))
  /\ [][\A s \in ScopeIds :
          (s \in disposeReturned' /\ s \notin disposeReturned) =>
            (scopes'[s].disposed /\ IsEmptyScope(scopes'[s]))]_vars

\* A Dispose has returned an error on a scope of which one hook failed and
\* another hook, invoked after the failure, did not.
C11_Witness ==
  \E s \in ScopeIds :
    /\ scopes[s].disposed
    /\ \E r \in returned : r.op = "Dispose" /\ r.scope = s /\ ~r.ok
    /\ FailedHooks(s) # {}
    /\ \E j, k \in DOMAIN cleanupLog :
         /\ j < k
         /\ created[cleanupLog[j]].scope = s /\ created[cleanupLog[k]].scope = s
         /\ j \in FailedHooks(s) /\ k \notin FailedHooks(s)

\* The (value, error) pair the factory execution for singleton key t produced:
\* the instance it built, or the failure of its construction.
Produced(t) ==
  LET i == CHOOSE i \in Constructions(t, 0) : TRUE
  IN IF created[i].failed THEN [ok |-> FALSE, val |-> 0] ELSE [ok |-> TRUE, val |-> i]

\* C12: no caller of getOrCreate for a key gets past Do before the one factory
\* execution for that key has completed, and every caller that returns from a
\* resolution of the key received the pair that execution produced: the
\* instance it built, or a failure when its construction failed.
C12_CallersShareFactoryResult ==
  /\ \A t \in SingletonTypes : Cardinality(Constructions(t, 0)) <= 1
  /\ \A p \in Procs : \A k \in DOMAIN stack[p] :
        stack[p][k].kind \in {"Make", "MakeSafe", "MakeAll"} /\ stack[p][k].phase = "result"
          => /\ singletons[stack[p][k].type].once = "done"
             /\ Constructions(stack[p][k].type, 0) # {}
  /\ \A r \in returned :
        r.type \in SingletonTypes
          => /\ Constructions(r.type, 0) # {}
             /\ r.ok = Produced(r.type).ok
             /\ r.val = Produced(r.type).val

\* t is among the bindings a ValidationError lists.
InPath(path, t) == \E i \in DOMAIN path : path[i] = t

\* A resolution of t has reported the failure of its construction to a caller.
FailureReported(t) ==
  \E r \in returned :
    /\ ~r.ok
    /\ \/ r.op \in {"Make", "MakeSafe", "MakeAll"} /\ r.type = t
       \/ r.op = "Validate" /\ InPath(r.err.path, t)

\* C13: once the construction of a singleton has failed and the failure has
\* been reported, the constructor is not invoked again (no construction is
\* added, none succeeds), and every resolution that returns afterwards reports
\* the failure: Make panics, MakeSafe returns the same error as every other
\* MakeSafe, Validate lists the binding; a binding registered in between for
\* the missing dependency changes nothing.
C13_FailureIsMemoized ==
  /\ [](\A t \in FailingTypes :
          FailureReported(t) =>
            /\ Cardinality(Constructions(t, 0)) <= 1
            /\ \A i \in Constructions(t, 0) : created[i].failed)
  /\ [][\A r \in returned' \ returned :
          /\ (r.op \in {"Make", "MakeSafe"} /\ FailureReported(r.type)) =>
                /\ ~r.ok
                /\ r.op = "MakeSafe" =>
                      \A r2 \in returned :
                        (r2.op = "MakeSafe" /\ r2.type = r.type /\ ~r2.ok) => r2.err = r.err
          /\ r.op = "Validate" =>
                \A t \in FailingTypes : FailureReported(t) => ~r.ok /\ InPath(r.err.path, t)
          /\ \A t \in FailingTypes :
                FailureReported(t) => Constructions(t, 0)' = Constructions(t, 0)]_vars

\* C14: transient and factory bindings are never cached.  Every call that
\* has returned was handed an instance of the requested type that no other
\* call was handed (as many distinct instances as calls returned), and a
\* factory binding's function has run exactly as many times as calls on the
\* binding have returned or are past the invocation.
C14_NeverCached ==
  /\ \A r \in returned :
        /\ r.ok
        /\ r.val \in Constructions(r.type, 0)
        /\ \A r2 \in returned : r2.val = r.val => r2 = r
  /\ Cardinality(returned) = ncalls - Cardinality({p \in Procs : ~Idle(p)})
  /\ Cardinality(Constructions("G", 0)) =
       Cardinality({r \in returned : r.type = "G"})
       + Cardinality({p \in Procs : ~Idle(p) /\ Top(p).type = "G" /\ Top(p).phase = "named"})

\* C14 witness: two Make calls on the factory binding and one on the
\* transient binding T have returned; the factory has run twice and the three
\* instances differ.
C14_Witness ==
  /\ \A p \in Procs : Idle(p)
  /\ Cardinality({r \in returned : r.type = "G" /\ r.op = "Make"}) = 2
  /\ Cardinality(Constructions("G", 0)) = 2
  /\ \E r \in returned : r.type = "T" /\ r.op = "Make" /\ r.ok

\* C15: a Register for a type that already has an unnamed binding fails with
\* the already-exists error and changes nothing, so that the lookup of the
\* type still finds the first binding; a Register for a type without one
\* succeeds and stores the binding.
C15_DuplicateRegisterFails ==
  /\ [][\A t \in Types : registry[t] # NoBinding => registry'[t] = registry[t]]_vars
  /\ [][\A r \in returned' \ returned :
          r.op = "Register" =>
            /\ r.ok = (registry[r.type] = NoBinding)
            /\ r.ok => registry'[r.type] # NoBinding
            /\ ~r.ok => r.err = Err("exists") /\ registry' = registry]_vars

\* C15 witness: a type has a transient binding and a Register for it has
\* failed.
C15_Witness ==
  /\ registry["A"] = Plain(LifetimeTransient)
  /\ \E r \in returned : r.op = "Register" /\ r.type = "A" /\ ~r.ok
  /\ \E r \in returned : r.op = "Register" /\ r.type = "A" /\ r.ok

\* C16: a BindNamed for a (type, name) pair that already has a binding fails
\* and the first binding is kept; it succeeds whenever the pair has none,
\* whatever is bound under other names or without a name; every resolution by
\* name builds an instance of the concrete type bound under that name; and
\* neither kind of registration touches the bindings of the other kind.
C16_NamedBindings ==
  /\ [][\A t \in Types, n \in Names :
          named[t][n] # NoNamedBinding => named'[t][n] = named[t][n]]_vars
  /\ [][\A t \in Types, n \in Names : \A r \in returned' \ returned :
          /\ (r.op = "BindNamed" /\ r.type = Key(t, n)) =>
                /\ r.ok = (named[t][n] = NoNamedBinding)
                /\ r.ok => named'[t][n].Name = n
                /\ ~r.ok => named' = named
                /\ registry' = registry
          /\ (r.op = "MakeNamed" /\ r.type = Key(t, n)) =>
                /\ r.ok = (named[t][n] # NoNamedBinding)
                /\ r.ok => created'[r.val].concrete = named[t][n].ConcreteType
          /\ r.op = "Register" => named' = named]_vars
  /\ [](\A t \in Types, n \in Names : \A r \in returned :
          (r.op = "MakeNamed" /\ r.type = Key(t, n) /\ r.ok) =>
            created[r.val].concrete = named[t][n].ConcreteType)

\* C16 witness: one type has an unnamed binding and two named ones of
\* different concrete types.
C16_Witness ==
  /\ registry["A"] # NoBinding
  /\ named["A"]["n1"].ConcreteType = "c1"
  /\ named["A"]["n2"].ConcreteType = "c2"

\* C16 witness of the duplicate: a BindNamed under a taken name has failed and
\* a resolution by that name has returned an instance.
C16_WitnessDuplicate ==
  /\ \E r \in returned : r.op = "BindNamed" /\ r.type = Key("A", "n1") /\ ~r.ok
  /\ \E r \in returned : r.op = "MakeNamed" /\ r.type = Key("A", "n1") /\ r.ok

\* C17: no false cycle.  No resolution of a type of the acyclic part, at the
\* top level or as a constructor parameter, ends with a circular-dependency
\* error or any other failure, whatever MakeSafe calls on the same container
\* failed before or fail concurrently; and the context of a goroutine that is
\* not inside a call on the cycle holds exactly the keys of the calls in
\* progress.
C17_NoFalseCycle ==
  /\ \A r \in returned : (r.op = "MakeSafe" /\ r.type \in AcyclicTypes) => r.ok
  /\ \A p \in Procs : \A k \in DOMAIN stack[p] :
        (stack[p][k].type \in AcyclicTypes /\ stack[p][k].ret # NoRet) => stack[p][k].ret.ok
  /\ \A p \in Procs :
        (~Idle(p) /\ stack[p][1].type \in AcyclicTypes) =>
          /\ ctx[p].seen = {stack[p][k].type :
                              k \in {j \in DOMAIN stack[p] :
                                       /\ stack[p][j].kind = "MakeSafe"
                                       /\ stack[p][j].phase # "start"}}
          /\ Len(ctx[p].stack) = Cardinality(ctx[p].seen)

\* C17 witness: on a diamond, a MakeSafe on the cycle has failed with a
\* circular-dependency error and a MakeSafe of A has returned an instance
\* after T was reached along both paths.
C17_Witness ==
  /\ registry["A"].paramTypes = <<"B", "C">>
  /\ registry["T"].Lifetime = LifetimeTransient
  /\ \E r \in returned : r.op = "MakeSafe" /\ r.type = "X" /\ r.err.kind = "cycle"
  /\ \E r \in returned : r.op = "MakeSafe" /\ r.type = "A" /\ r.ok
  /\ Cardinality(Constructions("T", 0)) >= 2

\* Whether the resolution of t succeeds when the keys in path are being
\* resolved: t is bound and not on the path, its parameters resolve, and its
\* constructor returns no error.
RECURSIVE Resolves(_, _)
Resolves(t, path) ==
  /\ registry[t] # NoBinding
  /\ t \notin path
  /\ ~registry[t].ctorFails
  /\ \A i \in DOMAIN registry[t].paramTypes :
        Resolves(registry[t].paramTypes[i], path \cup {t})

\* The unnamed bindings of the container whose resolution fails.
BrokenBindings == {t \in Types : registry[t] # NoBinding /\ ~Resolves(t, {})}

\* C18: a Validate that returned reports exactly the bindings whose
\* resolution fails: no error when there is none, otherwise a
\* ValidationError with an entry for every one of them; and it has attempted
\* the sound bindings too, the named one included, each of which built an
\* instance.
C18_ValidateReportsAll ==
  \A r \in returned :
    r.op = "Validate" =>
      /\ r.ok = (BrokenBindings = {})
      /\ ~r.ok =>
            /\ r.err.kind = "validation"
            /\ {r.err.path[i] : i \in DOMAIN r.err.path} = BrokenBindings
      /\ Cardinality(Constructions("T", 0)) >= 2

\* C18 witness: a Validate has reported a missing dependency, a cycle and a
\* failing constructor together.
C18_Witness ==
  \E r \in returned :
    /\ r.op = "Validate" /\ ~r.ok
    /\ {r.err.path[i] : i \in DOMAIN r.err.path} = {"K", "X", "F"}

\* C18 witness of the sound container: a Validate has returned no error.
C18_WitnessSound == \E r \in returned : r.op = "Validate" /\ r.ok

\* Goroutine p takes a step of a Validate call.
InValidate(p) ==
  /\ ~Idle(p)
  /\ stack[p][1].kind = "Validate"
  /\ stack'[p] # stack[p]

\* C19: Validate instantiates nothing persistently: no step of a Validate
\* call changes the singleton cache, neither its instances nor its memoized
\* errors, and none builds an instance of a singleton binding.
C19_ValidateLeavesCache ==
  [][(\E p \in Procs : InValidate(p)) =>
       /\ singletons' = singletons
       /\ \A t \in Types :
            registry[t].Lifetime = LifetimeSingleton =>
              Constructions(t, 0)' = Constructions(t, 0)]_vars

\* C20: a scoped binding resolved through the container fails fast on every
\* entry point.  Make, MakeAll and MustMake on a scoped type have panicked and
\* MakeSafe has returned an error, not a panic; MakeNamed on the type has
\* panicked or built the instance of a named, transient binding; a
\* constructor that takes a scoped parameter fails; and no instance of a
\* scoped binding was ever built for the container.
C20_ScopedFailsFast ==
  /\ \A r \in returned :
        /\ (r.type \in ScopedTypes /\ r.op \in {"Make", "MakeAll", "MustMake"}) =>
              ~r.ok /\ r.err = Err("panic")
        /\ (r.type \in ScopedTypes /\ r.op = "MakeSafe") =>
              ~r.ok /\ r.err # Err("panic") /\ r.err # NoErr
        /\ r.type = "K" => ~r.ok
        /\ \A t \in ScopedTypes, n \in Names :
              (r.op = "MakeNamed" /\ r.type = Key(t, n)) =>
                IF named[t][n] = NoNamedBinding
                THEN ~r.ok /\ r.err = Err("panic")
                ELSE r.ok /\ created[r.val].concrete = named[t][n].ConcreteType
  /\ \A i \in DOMAIN created :
        created[i].type \in ScopedTypes =>
          /\ "concrete" \in DOMAIN created[i]
          /\ \E n \in Names : created[i].concrete = named[created[i].type][n].ConcreteType

\* C20 witness: Make, MustMake and MakeSafe have all been refused for the
\* scoped binding X.
C20_Witness ==
  /\ \E r \in returned : r.op = "Make" /\ r.type = "X" /\ ~r.ok
  /\ \E r \in returned : r.op = "MustMake" /\ r.type = "X" /\ ~r.ok
  /\ \E r \in returned : r.op = "MakeSafe" /\ r.type = "X" /\ r.err = Err("unknown lifetime")

\* C20 witness of the other entry points: MakeAll and MakeNamed have panicked
\* for a scoped binding.
C20_WitnessAll ==
  /\ \E r \in returned : r.op = "MakeAll" /\ r.type = "Y" /\ ~r.ok
  /\ \E r \in returned : r.op = "MakeNamed" /\ r.type = Key("X", "n1") /\ ~r.ok

\* C21: a constructor with a concrete parameter type is rejected when it is
\* bound: no constructor binding of the registry has a parameter that is not
\* an interface, and no invocation of a registered constructor fails because
\* a parameter is not an interface.
C21_ConcreteParamRejectedAtBind ==
  /\ \A t \in Types :
        registry[t].Constructor =>
          \A i \in DOMAIN registry[t].paramTypes : IsInterface(registry[t].paramTypes[i])
  /\ \A p \in Procs : \A k \in DOMAIN stack[p] :
        stack[p][k].ret.err # Err("parameter must be an interface")

\* C22: MakeSafe never panics: no MakeSafe call ends with the panic of the
\* constructor call; every failure is a returned error.
C22_MakeSafeNeverPanics ==
  \A r \in returned : r.op = "MakeSafe" => r.err # CallPanic.err

\* C23: no registration function panics on an invalid input: every call of
\* Bind, BindNamed, BindWithTags and BindConstructor ends with a returned value
\* or a returned error.
C23_RegistrationNeverPanics ==
  \A r \in returned :
    r.op \in {"Bind", "BindNamed", "BindWithTags", "BindConstructor"} => r.err # Panic.err

\* C24: Make returns normally only with an instance built for the requested
\* type, and panics for every type whose resolution fails; MustMake panics
\* when its MakeSafe returned an error and returns MakeSafe's instance
\* otherwise.
C24_MakePanicsOnFailure ==
  /\ [](\A r \in returned :
          r.op = "Make" =>
            IF r.type \in FailedTypes
            THEN ~r.ok /\ r.err = Panic.err
            ELSE /\ r.ok
                 /\ r.val \in DOMAIN created
                 /\ created[r.val].type = r.type /\ ~created[r.val].failed)
  /\ [][\A p \in Procs :
          (~Idle(p) /\ Top(p).kind = "MustMake" /\ Top(p).ret # NoRet /\ stack'[p] = <<>>) =>
            \E r \in returned' :
              /\ r.op = "MustMake" /\ r.type = Top(p).type
              /\ r.ok = Top(p).ret.ok
              /\ IF Top(p).ret.ok THEN r.val = Top(p).ret.val ELSE r.err = Panic.err]_vars

\* C25: a failing GetNamed reports the "no binding at all for this type" kind
\* exactly when the type has neither an unnamed nor a named binding, and the
\* "name unknown" kind when the type has some binding but none under the name.
C25_GetNamedDistinguishes ==
  [][\A t \in LookupTypes, n \in Names : \A r \in returned' \ returned :
       (r.op = "GetNamed" /\ r.type = Key(t, n) /\ ~r.ok) =>
         IF registry[t] = NoBinding /\ ~HasNamed(t)
         THEN r.err = Err("notfound")
         ELSE r.err = Err("name not found")]_vars

\* C26: providers are booted in the order of their registration and none is
\* booted twice: the entries whose Boot succeeded appear in the boot log in
\* increasing order of registration, each at most once, they are the entries
\* marked booted, and every one of them implements BootableProvider.
C26_BootedOnceInOrder ==
  /\ \A i, j \in DOMAIN bootLog : i < j => bootLog[i] < bootLog[j]
  /\ \A k \in DOMAIN providers :
        providers[k].booted <=> \E i \in DOMAIN bootLog : bootLog[i] = k
  /\ \A i \in DOMAIN bootLog : providers[bootLog[i]].provider \in BootableProviders
  /\ \A k, l \in DOMAIN providers : k # l => providers[k].provider # providers[l].provider

\* C26 witness: the Boot of the second provider failed after the first was
\* booted, and a later BootProviders booted the second and not the first.
C26_Witness ==
  /\ \E r \in returned : r.op = "BootProviders" /\ ~r.ok
  /\ bootLog = <<1, 2>>

\* C27: the lock of a scope is held only by a goroutine that is inside a call
\* on that scope: once a Scope.Make has ended, also with a failed
\* construction, the lock is free and later calls on the scope can proceed.
C27_LockReleasedAfterFailure ==
  \A s \in ScopeIds :
    scopes[s].mu # 0 =>
      \E k \in DOMAIN stack[scopes[s].mu] :
        /\ stack[scopes[s].mu][k].kind \in {"ScopeMake", "Dispose"}
        /\ stack[scopes[s].mu][k].scope = s

\* C28: no caller of Scope.Make receives an instance that has an Initialize
\* hook before an Initialize call on that instance has completed with success.
C28_InitializedBeforeReturned ==
  \A r \in returned :
    (r.op = "ScopeMake" /\ r.ok /\ registry[r.type].initializable) =>
      /\ ~registry[r.type].initFails
      /\ \E k \in DOMAIN initLog : initLog[k] = r.val

C30_AutoWiredOnEveryPath ==
  \A r \in returned :
    (r.ok /\ r.type = "X" /\ r.op \in {"Make", "MakeSafe", "MustMake", "MakeAll", "ScopeMake"}
          /\ r.val # 0) =>
      Wired(r.val)

\* Goroutine p waits in sync.Once.Do for a Do that p itself is running
\* further down its own call stack: it waits forever.
WaitsForItself(p) ==
  /\ ~Idle(p)
  /\ Top(p).kind = "Make" /\ Top(p).phase = "once"
  /\ singletons[Top(p).type].once = "running"
  /\ \E k \in 1..(Len(stack[p]) - 1) :
       /\ stack[p][k].kind \in {"Make", "MakeAll"}
       /\ stack[p][k].type = Top(p).type
       /\ stack[p][k].phase = "factory"

\* C31: auto-wiring does not bypass cycle detection: the injection of a
\* tagged field whose type lies on a dependency cycle ends with a reported
\* failure, so no goroutine that auto-wires an instance is ever left waiting
\* for its own resolution of the field.
C31_AutoWireDetectsCycle ==
  \A p \in Procs :
    (~Idle(p) /\ stack[p][1].kind = "MakeAll" /\ stack[p][1].phase = "autowire") =>
      ~WaitsForItself(p)

RegistrationOps == {"Register", "Bind", "BindNamed", "RegisterNamed"}

\* C32: the registry is append-only.  A lookup that finds a binding finds
\* the same binding in every later state, for Get by type and for GetNamed
\* by type and name, whatever registrations and lookups the goroutines make
\* in between; and a registration call that fails changes neither map.
C32_AppendOnly ==
  /\ [][\A t \in LookupTypes : Get(t).result.ok => Get(t)' = Get(t)]_vars
  /\ [][\A t \in LookupTypes, n \in Names :
          GetNamed(t, n).ok => (GetNamed(t, n)' = GetNamed(t, n) /\ named'[t][n] = named[t][n])]_vars
  /\ [][\A r \in returned' \ returned :
          (r.op \in RegistrationOps /\ ~r.ok) => (registry' = registry /\ named' = named)]_vars

\* C32 witness: Get found the binding of a type, a registration for that type
\* failed afterwards, and the binding is still the one registered first.
C32_Witness ==
  \E t \in LookupTypes :
    /\ \E r \in returned : r.op = "Get" /\ r.type = t /\ r.ok
    /\ \E r \in returned : r.op = "Bind" /\ r.type = t /\ ~r.ok /\ r.err = Err("exists")
    /\ registry[t] = Plain(LifetimeTransient)

\* C32 witness for named bindings: GetNamed found a binding and a second
\* registration under the same type and name failed.
C32_WitnessNamed ==
  \E t \in LookupTypes, n \in Names :
    /\ \E r \in returned : r.op = "GetNamed" /\ r.type = Key(t, n) /\ r.ok
    /\ \E r \in returned : r.op = "RegisterNamed" /\ r.type = Key(t, n) /\ ~r.ok
    /\ named[t][n].Lifetime = LifetimeTransient

\* C33: constructor parameters are resolved through the container, never
\* through the requesting scope: the call made by invokeConstructor for a
\* parameter is a Make of the container; and a binding whose constructor
\* takes a scoped parameter is resolved by no entry point: Scope.Make and
\* Make end in a panic, MakeSafe in an error, and no instance of it is built.
C33_ScopedParamNeverResolved ==
  /\ \A p \in Procs : \A k \in 1..(Len(stack[p]) - 1) :
        stack[p][k].kind = "invokeConstructor" =>
          (stack[p][k + 1].kind = "Make" /\ stack[p][k + 1].scope = 0)
  /\ \A r \in returned :
        r.type \in ScopedParamTypes =>
          /\ ~r.ok
          /\ r.op \in {"ScopeMake", "Make"} => r.err = Panic.err
          /\ r.op = "MakeSafe" => r.err # Panic.err
  /\ \A i \in DOMAIN created : created[i].type \notin ScopedParamTypes

\* C33 witness: a scope holds an instance of X in its cache and a Scope.Make
\* on that scope for the transient T, whose constructor takes X, has panicked;
\* so have a Scope.Make for the scoped Y and a Make for the singleton S.
C33_Witness ==
  /\ \E s \in ScopeIds :
        /\ scopes[s].instances["X"] # 0
        /\ \E r \in returned : r.op = "ScopeMake" /\ r.type = "T" /\ r.scope = s /\ ~r.ok
  /\ \E r \in returned : r.type = "S" /\ ~r.ok

\* C34: the Initialize hook of a scoped instance runs at most once, however
\* many goroutines make the first Scope.Make calls for its binding on the
\* same scope at the same time.
C34_InitializedAtMostOnce ==
  \A i, j \in DOMAIN initLog :
    (initLog[i] = initLog[j] /\ created[initLog[i]].scope # 0) => i = j

\* The Initialize hook of instance i was invoked and failed.
InitFailed(i) ==
  /\ i # 0
  /\ registry[created[i].type].initFails
  /\ \E k \in DOMAIN initLog : initLog[k] = i

\* C35: a scoped instance whose Initialize hook failed (Scope.Make panicked)
\* stays in the cache and in the creation-order log of its scope until the
\* scope is disposed; a Scope.Make that looks the binding up afterwards
\* returns that instance and Initialize is not invoked again; and once the
\* scope is disposed the instance has had its cleanup hook invoked.
C35_FailedInitStaysCached ==
  /\ [](\A i \in DOMAIN created :
          (InitFailed(i) /\ ~scopes[created[i].scope].disposed) =>
             /\ scopes[created[i].scope].instances[created[i].type] = i
             /\ \E k \in DOMAIN scopes[created[i].scope].creationOrder :
                   scopes[created[i].scope].creationOrder[k] = i)
  /\ [](\A i \in DOMAIN created :
          (InitFailed(i) /\ scopes[created[i].scope].disposed) =>
             \E k \in DOMAIN cleanupLog : cleanupLog[k] = i)
  /\ [][\A p \in Procs :
          (/\ ~Idle(p)
           /\ Top(p).kind = "ScopeMake" /\ Top(p).phase = "fast"
           /\ InitFailed(scopes[Top(p).scope].instances[Top(p).type])
           /\ stack'[p] # stack[p]) =>
             /\ Returned(call[p], Ok(scopes[Top(p).scope].instances[Top(p).type])) \in returned'
             /\ initLog' = initLog]_vars

\* The bindings Validate cannot resolve because of the scoped lifetime: the
\* scoped ones and those whose constructor takes a scoped parameter.
ScopedOrTakesScoped ==
  {t \in Types :
     /\ registry[t] # NoBinding
     /\ \/ registry[t].Lifetime = LifetimeScoped
        \/ \E k \in DOMAIN registry[t].paramTypes :
              /\ IsInterface(registry[t].paramTypes[k])
              /\ registry[registry[t].paramTypes[k]].Lifetime = LifetimeScoped}

\* C36: Validate returns a ValidationError whenever the container holds a
\* scoped binding or a binding whose constructor takes a scoped parameter,
\* with an entry for each of them, whether or not Scope.Make resolves the
\* scoped binding; and MakeSafe fails on a scoped binding with the
\* unknown-lifetime error.
C36_ScopedNeverValidates ==
  /\ \A r \in returned :
        (r.op = "Validate" /\ ScopedOrTakesScoped # {}) =>
          /\ ~r.ok
          /\ r.err.kind = "validation"
          /\ \A t \in ScopedOrTakesScoped : \E k \in DOMAIN r.err.path : r.err.path[k] = t
  /\ \A p \in Procs : \A k \in DOMAIN stack[p] :
        (/\ stack[p][k].kind = "Validate" /\ stack[p][k].phase = "unnamed"
         /\ stack[p][k].ret # NoRet
         /\ registry[stack[p][k].type].Lifetime = LifetimeScoped) =>
           stack[p][k].ret = Fail(Err("unknown lifetime"))

\* C36 witness: Scope.Make has returned an instance of the scoped X and a
\* Validate has returned a ValidationError that lists X and the bindings that
\* take it.
C36_Witness ==
  /\ \E r \in returned : r.op = "ScopeMake" /\ r.type = "X" /\ r.ok
  /\ \E r \in returned :
        r.op = "Validate" /\ ~r.ok /\ r.err.path = <<"T", "X">>

\* The MakeSafe calls that returned a circular-dependency error.
CycleErrors == {r \in returned : r.op = "MakeSafe" /\ IsCycleError(r)}

\* C37 as stated, for constructor bindings of either lifetime: the path of a
\* cycle error begins with the key the MakeSafe call was made for, and
\* MakeSafe(X) reports [X, A, B, A].
C37_PathBeginsWithRequestedKey ==
  \A r \in CycleErrors :
    /\ r.err.path[1] = r.type
    /\ r.type = "X" => r.err.path = <<"X", "A", "B", "A">>

\* C37, amended: the path is a resolution stack followed by the repeated key
\* (each entry is a constructor parameter of the one before it and the last
\* entry occurs earlier in the path); it is the stack of the call that
\* returns it, beginning with the requested key, whenever no binding on the
\* path is a singleton, so that MakeSafe(X) reports [X, A, B, A] when X, A
\* and B are transient.
C37_CyclePathOfDetectingCall ==
  \A r \in CycleErrors :
    LET path == r.err.path
    IN /\ Len(path) >= 2
       /\ \A k \in 1..(Len(path) - 1) :
             \E j \in DOMAIN registry[path[k]].paramTypes :
               registry[path[k]].paramTypes[j] = path[k + 1]
       /\ \E k \in 1..(Len(path) - 1) : path[k] = path[Len(path)]
       /\ (\A k \in DOMAIN path : registry[path[k]].Lifetime = LifetimeTransient) =>
             /\ path[1] = r.type
             /\ r.type = "X" => path = <<"X", "A", "B", "A">>

\* C37 witness: with three transient bindings MakeSafe(X) has reported
\* [X, A, B, A].
C37_Witness ==
  /\ registry = CycleWithTail(LifetimeTransient, LifetimeTransient, LifetimeTransient)
  /\ \E r \in CycleErrors : r.type = "X" /\ r.err.path = <<"X", "A", "B", "A">>

\* The entry points that resolve an unnamed singleton.
EntryPoints == {"Make", "MakeSafe", "MustMake", "MakeAll", "ScopeMake"}

\* C38: the instances of an unnamed singleton binding returned by Make,
\* MakeSafe, MustMake, MakeAll and Scope.Make on any scope are one and the
\* same, and the construction of the singleton runs once in total, whatever
\* the order and the interleaving of the calls.
C38_OneInstanceAcrossEntryPoints ==
  \A t \in EntryPointTypes :
    /\ \A r1, r2 \in returned :
          (/\ r1.type = t /\ r2.type = t
           /\ r1.op \in EntryPoints /\ r2.op \in EntryPoints
           /\ r1.ok /\ r2.ok) =>
             r1.val = r2.val
    /\ \A r \in returned :
          (r.type = t /\ r.op \in EntryPoints /\ r.ok) => r.val = singletons[t].value
    /\ Cardinality({i \in DOMAIN created : created[i].type = t}) <= 1

\* C38 witness: three different entry points, Scope.Make among them, have
\* returned the one instance of S.
C38_Witness ==
  \E i \in DOMAIN created :
    /\ created[i].type = "S" /\ ~created[i].failed
    /\ \E r \in returned : r.op = "ScopeMake" /\ r.type = "S" /\ r.ok /\ r.val = i
    /\ \E r \in returned : r.op = "MakeAll" /\ r.type = "S" /\ r.ok /\ r.val = i
    /\ \E r \in returned : r.op \in {"MustMake", "MakeSafe", "Make"} /\ r.type = "S" /\ r.ok /\ r.val = i

\* Instance i was built for a scoped binding by Scope.Make on scope s.
OwnScoped(i, s) ==
  /\ created[i].scope = s
  /\ registry[created[i].type].Lifetime = LifetimeScoped

\* C39: the cache and the creation-order log of a scope hold only instances
\* of scoped bindings that this scope built, so singleton, factory and
\* transient instances obtained through Scope.Make are in neither; and a
\* cleanup hook is invoked only by the Dispose of the scope that built the
\* instance, on an instance of a scoped binding.
C39_DisposeOwnScopedOnly ==
  /\ [](\A s \in ScopeIds :
          /\ \A k \in DOMAIN scopes[s].creationOrder :
                OwnScoped(scopes[s].creationOrder[k], s)
          /\ \A t \in Types :
                scopes[s].instances[t] # 0 => OwnScoped(scopes[s].instances[t], s))
  /\ [](\A k \in DOMAIN cleanupLog :
          registry[created[cleanupLog[k]].type].Lifetime = LifetimeScoped)
  /\ [][cleanupLog' # cleanupLog =>
          \E p \in Procs :
            /\ ~Idle(p) /\ Top(p).kind = "Dispose"
            /\ stack'[p] # stack[p]
            /\ cleanupLog' = Append(cleanupLog, cleanupLog'[Len(cleanupLog')])
            /\ OwnScoped(cleanupLog'[Len(cleanupLog')], Top(p).scope)]_vars

\* C39 witness: a scope on which a singleton or transient instance with a
\* cleanup hook and the scoped X were resolved has been disposed, and the
\* cleanup log holds the instance of X alone.
C39_Witness ==
  \E s \in ScopeIds :
    /\ scopes[s].disposed
    /\ \E r \in returned :
          r.op = "ScopeMake" /\ r.scope = s /\ r.type \in {"T", "S", "Y"} /\ r.ok
    /\ \E r \in returned : r.op = "ScopeMake" /\ r.scope = s /\ r.type = "X" /\ r.ok
    /\ Len(cleanupLog) = 1
    /\ created[cleanupLog[1]].type = "X"

\* The CreateChildScope calls that have ended.
ChildCalls == {r \in returned : r.op = "CreateChildScope"}

\* C40: no scope is active while its parent is disposed; a CreateChildScope
\* call panics only on a disposed scope and always does when the scope's
\* Dispose had returned before the call; and the child a call returned is
\* disposed once the Dispose of its parent has returned.
C40_NoActiveChildOfDisposed ==
  /\ \A c \in ScopeIds :
        parentScope[c] # 0 /\ scopes[parentScope[c]].disposed => scopes[c].disposed
  /\ \A r \in ChildCalls :
        /\ ~r.ok => scopes[r.scope].disposed
        /\ r.after => ~r.ok
        /\ r.ok => /\ parentScope[r.val] = r.scope
                   /\ r.scope \in disposeReturned => scopes[r.val].disposed

\* C40 witness: on one scope, now disposed, one CreateChildScope call returned
\* a child, which is disposed, and another one panicked.
C40_Witness ==
  \E r, q \in ChildCalls :
    /\ r.scope = q.scope
    /\ r.scope \in disposeReturned
    /\ r.ok /\ scopes[r.val].disposed
    /\ ~q.ok

====
